---- MODULE Spec2Model ----
(***************************************************************************)
(* Personal finance dashboard: the debt payoff estimator                   *)
(* (_estimate_debt_payoff) and the metrics computation (compute_metrics)   *)
(* of tools/pf_calcs.py, over the session state the dashboard keeps, and   *)
(* the page itself (render_personal_finance_dashboard of                   *)
(* tools/finance_dashboard.py), one action per rerun of its script.        *)
(*                                                                         *)
(* Arithmetic.  Money is counted in whole currency units (the +1.0 of the  *)
(* code is one unit).  An APR is a rational number of percent, n/d, so     *)
(* that the weighted APR of compute_metrics is held exactly.  The one      *)
(* product the code rounds in every iteration, balance * monthly_rate, is  *)
(* rounded down to a whole unit (Times); Python rounds it to the nearest   *)
(* double instead.  Both roundings are monotone in the balance, which is   *)
(* what the code's comparisons rely on.                                    *)
(***************************************************************************)
EXTENDS Integers, Sequences, FiniteSets, TLC

VARIABLES
    pc,               \* position of the running _estimate_debt_payoff call
    balance,          \* its arguments, after the float(x or 0.0) coercions
    apr_pct,
    payment,
    max_months,
    b,                \* its locals in the amortization loop
    months,
    total_interest,
    est,              \* the dict it returned
    raised,           \* the last call ended in an exception instead
    pf_debt_df,       \* st.session_state["pf_debt_df"]: the debt rows
    session_state,    \* st.session_state, its other keys: tables and settings
    today,            \* pd.Timestamp.today(), counted in months
    metrics,          \* the dict returned by the last compute_metrics()
    called_on,        \* the month that call was made in
    sum_args,         \* the (df, col) of the last _sum_df call
    sum_out,          \* what it returned
    kw_args,          \* the (df, name_col, amount_col, keywords) of a _sum_by_keywords call
    kw_out,           \* what it returned
    dash_state,       \* st.session_state, the import queue and the draft deductions
    uploaded,         \* the file in the snapshot uploader
    downloaded,       \* the snapshot file last downloaded
    rendered          \* the last run of the script: what its calculations read, and
                      \* the interaction it was started by

callVars == <<pc, balance, apr_pct, payment, max_months, b, months, total_interest, est, raised>>
sessionVars == <<pf_debt_df, session_state, today, metrics, called_on>>
sumVars == <<sum_args, sum_out>>
kwVars == <<kw_args, kw_out>>
dashVars == <<dash_state, uploaded, downloaded, rendered>>
vars == <<pc, balance, apr_pct, payment, max_months, b, months, total_interest, est,
          raised, pf_debt_df, session_state, today, metrics, called_on,
          sum_args, sum_out, kw_args, kw_out,
          dash_state, uploaded, downloaded, rendered>>

-----------------------------------------------------------------------------
(* Values *)

\* Python's None, and a value that is present.
None == <<>>
Some(x) == <<x>>

\* A rational number n/d with d > 0.
Q(n, d) == [n |-> n, d |-> d]

\* A cell of a table or an argument: a number, a text, or missing (None / NaN).
Num(x) == <<x>>
Text(t) == <<"text", t>>
IsNum(cell) == Len(cell) = 1

RECURSIVE GCD(_, _)
GCD(x, y) == IF y = 0 THEN x ELSE GCD(y, x % y)

Max(x, y) == IF x >= y THEN x ELSE y

\* max_months: int = 600
DefaultMaxMonths == 600

-----------------------------------------------------------------------------
(* _estimate_debt_payoff *)

\* monthly_rate = max(apr_pct, 0.0) / 100.0 / 12.0, in lowest terms
MonthlyRate(apr) ==
    LET n == Max(apr.n, 0)
        d == apr.d * 100 * 12
        g == GCD(n, d)
    IN  Q(n \div g, d \div g)

\* x * monthly_rate for an amount x >= 0, rounded down to a whole unit
Times(x, rate) == (x * rate.n) \div rate.d

\* monthly_interest = balance * monthly_rate if monthly_rate > 0 else 0.0
MonthlyInterest(bal, rate) == IF rate.n > 0 THEN Times(bal, rate) ELSE 0

Result(status, mo, ti, mi, minpay, reason) ==
    [status |-> status, months |-> mo, total_interest |-> ti,
     monthly_interest |-> mi, min_payment_to_amortize |-> minpay, reason |-> reason]

\* Slip: the test is balance < 0, so a balance of exactly 0 falls through.
NothingOwedStrict(bal) == bal < 0

\* if balance <= 0
NothingOwed(bal) == bal <= 0

\* if payment <= 0
NoPayment(pay) == pay <= 0

\* Slip: the zero-rate alternative is dropped.
MinPaymentAlwaysPlusOne(rate, monthly_interest) == monthly_interest + 1

\* monthly_interest + 1.0 if monthly_rate > 0 else 0.0
MinPaymentNoPayment(rate, monthly_interest) ==
    IF rate.n > 0 THEN monthly_interest + 1 ELSE 0

\* if monthly_rate <= 0
NoInterest(rate) == rate.n <= 0

\* Slip: the division is truncated instead of rounded up.
FloorDiv(x, y) == x \div y

\* int(math.ceil(balance / payment)), for balance > 0 and payment > 0
CeilDiv(x, y) == (x + y - 1) \div y

\* Slip: the test is payment < monthly_interest, so equality reaches the loop.
StrictlyBelowInterest(pay, monthly_interest) == pay < monthly_interest

\* if payment <= monthly_interest
BelowInterest(pay, monthly_interest) == pay <= monthly_interest

\* The returns that precede the loop; None when the call reaches the loop.
EarlyReturn(bal, apr, pay) ==
    LET monthly_rate == MonthlyRate(apr)
        monthly_interest == MonthlyInterest(bal, monthly_rate)
    IN  IF NothingOwed(bal)
        THEN Some(Result("paid_off", Some(0), Some(0), 0, 0, None))
        ELSE IF NoPayment(pay)
        THEN Some(Result("no_payment", None, None, monthly_interest,
                         MinPaymentNoPayment(monthly_rate, monthly_interest),
                         Some("No monthly payment entered.")))
        ELSE IF NoInterest(monthly_rate)
        THEN Some(Result("paid_off", Some(CeilDiv(bal, pay)), Some(0), 0, 0, None))
        ELSE IF BelowInterest(pay, monthly_interest)
        THEN Some(Result("non_amortizing", None, None, monthly_interest,
                         monthly_interest + 1,
                         Some("Payment is less than (or equal to) monthly interest, so the balance will grow.")))
        ELSE None

\* The loop's locals on entry: months = 0, total_interest = 0.0, b = balance
LoopEntry(bal) == [b |-> bal, months |-> 0, total_interest |-> 0]

\* Slip: the loop has no cap on the months.
LoopCondNoCap(st, maxm) == st.b > 0

\* while b > 0 and months < max_months
LoopCond(st, maxm) == st.b > 0 /\ st.months < maxm

\* interest = b * monthly_rate
Interest(st, rate) == Times(st.b, rate)

\* principal = payment - interest
Principal(st, pay, rate) == pay - Interest(st, rate)

\* The return inside the loop, taken when principal <= 0.
DefensiveReturn(st, rate) ==
    Result("non_amortizing", None, None, Interest(st, rate), Interest(st, rate) + 1,
           Some("Payment doesn't reduce principal."))

\* Slip: the whole payment is taken off the balance, the interest on top.
LoopBodyAllPrincipal(st, pay, rate) ==
    [st EXCEPT !.b = @ - pay,
               !.months = @ + 1,
               !.total_interest = @ + Times(st.b, rate)]

\* Slip: the balance is reduced by the interest instead of the principal.
LoopBodyLessInterest(st, pay, rate) ==
    [st EXCEPT !.b = @ - Times(st.b, rate),
               !.months = @ + 1,
               !.total_interest = @ + Times(st.b, rate)]

\* b -= principal; total_interest += interest; months += 1
LoopBody(st, pay, rate) ==
    [st EXCEPT !.b = @ - Principal(st, pay, rate),
               !.months = @ + 1,
               !.total_interest = @ + Interest(st, rate)]

\* Slip: too_long reports the interest of the last simulated month.
AfterLoopLastMonth(st, bal, rate, maxm) ==
    IF st.b > 0
    THEN Result("too_long", None, Some(st.total_interest), Times(st.b, rate),
                Times(st.b, rate) + 1, Some(<<"Not paid off within months:", maxm>>))
    ELSE Result("paid_off", Some(st.months), Some(st.total_interest),
                IF rate.n > 0 THEN Times(bal, rate) ELSE 0,
                (IF rate.n > 0 THEN Times(bal, rate) ELSE 0) + 1, None)

\* The two returns that follow the loop.
AfterLoop(st, bal, rate, maxm) ==
    LET monthly_interest == MonthlyInterest(bal, rate)
    IN  IF st.b > 0
        THEN Result("too_long", None, Some(st.total_interest), monthly_interest,
                    monthly_interest + 1, Some(<<"Not paid off within months:", maxm>>))
        ELSE Result("paid_off", Some(st.months), Some(st.total_interest), monthly_interest,
                    monthly_interest + 1, None)

\* One pass of the while statement on the locals st; st.ret holds the dict
\* returned from inside the loop, once there is one.  A loop that has ended
\* stays as it is.
WhilePass(st, pay, rate, maxm) ==
    IF st.ret # None \/ ~LoopCond(st, maxm)
    THEN st
    ELSE IF Principal(st, pay, rate) <= 0
         THEN [st EXCEPT !.ret = Some(DefensiveReturn(st, rate))]
         ELSE LoopBody(st, pay, rate)

\* k passes of the while statement (halved, to keep the evaluation shallow).
RECURSIVE WhilePasses(_, _, _, _, _)
WhilePasses(st, k, pay, rate, maxm) ==
    IF k <= 0 \/ st.ret # None \/ ~LoopCond(st, maxm)
    THEN st
    ELSE IF k = 1
         THEN WhilePass(st, pay, rate, maxm)
         ELSE WhilePasses(WhilePasses(st, k \div 2, pay, rate, maxm),
                          k - (k \div 2), pay, rate, maxm)

\* The loop run to its return: it ends within max_months passes.
Amortize(bal, pay, rate, maxm) ==
    LET entry == [b |-> LoopEntry(bal).b, months |-> LoopEntry(bal).months,
                  total_interest |-> LoopEntry(bal).total_interest, ret |-> None]
        end == WhilePasses(entry, maxm, pay, rate, maxm)
    IN  IF end.ret # None THEN end.ret[1] ELSE AfterLoop(end, bal, rate, maxm)

\* The whole call, as compute_metrics uses it.
EstimateDebtPayoff(bal, apr, pay, maxm) ==
    LET early == EarlyReturn(bal, apr, pay)
    IN  IF early # None
        THEN early[1]
        ELSE Amortize(bal, pay, MonthlyRate(apr), maxm)

-----------------------------------------------------------------------------
(* The call, one loop iteration at a time *)

BalanceInputs == {-100, 0, 100, 1200, 12000}
AprInputs == {Q(-12, 1), Q(0, 1), Q(1, 1), Q(12, 1), Q(1200, 1), Q(4, 7)}
PaymentInputs == {-5, 0, 1, 11, 12, 13, 100, 1300, 12000}
MaxMonthsInputs == {1, 3, DefaultMaxMonths}

\* The arguments as a caller may hand them over: a number, None, or a text.
RawBalanceInputs == {Num(x) : x \in BalanceInputs} \cup {None, Text(""), Text("n/a")}
RawAprInputs == {Num(x) : x \in AprInputs} \cup {None, Text("n/a")}
RawPaymentInputs == {Num(x) : x \in PaymentInputs} \cup {None, Text("abc")}

\* x or zero takes the zero: x is None, "" or zero itself
Falsy(x, zero) ==
    \/ Len(x) = 0
    \/ Len(x) = 2 /\ x[2] = ""
    \/ Len(x) = 1 /\ x[1] = zero

\* float(x or 0.0) raises ValueError: x is a text that is not a number
FloatRaises(x, zero) == ~Falsy(x, zero) /\ ~IsNum(x)

\* float(x or 0.0) where it does not raise
FloatOr(x, zero) == IF Falsy(x, zero) THEN zero ELSE x[1]

NoCall == [b |-> 0, months |-> 0, total_interest |-> 0]

\* The locals of the running call, as the record the loop operators take.
Locals == [b |-> b, months |-> months, total_interest |-> total_interest]

\* _estimate_debt_payoff(raw_bal, raw_apr, raw_pay, maxm) is called: a coercion
\* raises, or the call returns before the loop, or it reaches the loop with its
\* locals initialised.
Call ==
    /\ pc \in {"idle", "returned"}
    /\ \E raw_bal \in RawBalanceInputs, raw_apr \in RawAprInputs,
          raw_pay \in RawPaymentInputs, maxm \in MaxMonthsInputs :
        IF \/ FloatRaises(raw_bal, 0)
           \/ FloatRaises(raw_apr, Q(0, 1))
           \/ FloatRaises(raw_pay, 0)
        THEN /\ raised' = TRUE
             /\ pc' = "idle"
             /\ est' = None
             /\ balance' = 0
             /\ apr_pct' = Q(0, 1)
             /\ payment' = 0
             /\ max_months' = DefaultMaxMonths
             /\ b' = NoCall.b
             /\ months' = NoCall.months
             /\ total_interest' = NoCall.total_interest
        ELSE
        LET bal == FloatOr(raw_bal, 0)
            apr == FloatOr(raw_apr, Q(0, 1))
            pay == FloatOr(raw_pay, 0)
            early == EarlyReturn(bal, apr, pay)
            entry == LoopEntry(bal)
        IN  /\ raised' = FALSE
            /\ balance' = bal
            /\ apr_pct' = apr
            /\ payment' = pay
            /\ max_months' = maxm
            /\ IF early # None
               THEN /\ pc' = "returned"
                    /\ est' = early[1]
                    /\ b' = NoCall.b
                    /\ months' = NoCall.months
                    /\ total_interest' = NoCall.total_interest
               ELSE /\ pc' = "loop"
                    /\ est' = None
                    /\ b' = entry.b
                    /\ months' = entry.months
                    /\ total_interest' = entry.total_interest
    /\ UNCHANGED sessionVars
    /\ UNCHANGED sumVars
    /\ UNCHANGED kwVars
    /\ UNCHANGED dashVars

\* One iteration of the while loop.
LoopIter ==
    /\ pc = "loop"
    /\ LoopCond(Locals, max_months)
    /\ LET rate == MonthlyRate(apr_pct)
           next == LoopBody(Locals, payment, rate)
       IN  IF Principal(Locals, payment, rate) <= 0
           THEN /\ pc' = "returned"
                /\ est' = DefensiveReturn(Locals, rate)
                /\ UNCHANGED <<b, months, total_interest>>
           ELSE /\ b' = next.b
                /\ months' = next.months
                /\ total_interest' = next.total_interest
                /\ UNCHANGED <<pc, est>>
    /\ UNCHANGED <<balance, apr_pct, payment, max_months, raised>>
    /\ UNCHANGED sessionVars
    /\ UNCHANGED sumVars
    /\ UNCHANGED kwVars
    /\ UNCHANGED dashVars

\* The loop condition fails: the call returns too_long or paid_off.
LoopExit ==
    /\ pc = "loop"
    /\ ~LoopCond(Locals, max_months)
    /\ pc' = "returned"
    /\ est' = AfterLoop(Locals, balance, MonthlyRate(apr_pct), max_months)
    /\ UNCHANGED <<balance, apr_pct, payment, max_months, b, months, total_interest, raised>>
    /\ UNCHANGED sessionVars
    /\ UNCHANGED sumVars
    /\ UNCHANGED kwVars
    /\ UNCHANGED dashVars

-----------------------------------------------------------------------------
(* Table cells and the debt table *)

\* A row of the debt table, by column name.
DebtRow(name, bal, apr, pay) ==
    ("Debt" :> name) @@ ("Balance" :> bal) @@ ("APR %" :> apr) @@
    ("Monthly Payment" :> pay) @@ ("Notes" :> Text(""))

DebtCols == {"Debt", "Balance", "APR %", "Monthly Payment", "Notes"}
DebtNumericCols == {"Balance", "APR %", "Monthly Payment"}

\* pd.to_numeric(x, errors="coerce") followed by fillna(0.0)
ToNumeric(cell) == IF IsNum(cell) THEN cell ELSE Num(0)

\* _sanitize_editor_df: the expected columns, the numeric ones coerced
SanitizeEditorDf(df, expected_cols, numeric_cols) ==
    [i \in DOMAIN df |->
        [c \in expected_cols |->
            IF c \in numeric_cols THEN ToNumeric(df[i][c]) ELSE df[i][c]]]

DEFAULT_DEBT ==
    << DebtRow(Text("Car loan"), Num(0), Num(0), Num(0)),
       DebtRow(Text("Credit card"), Num(0), Num(0), Num(0)),
       DebtRow(Text("Student loan"), Num(0), Num(0), Num(0)),
       DebtRow(Text("Personal loan"), Num(0), Num(0), Num(0)),
       DebtRow(Text("Medical debt"), Num(0), Num(0), Num(0)),
       DebtRow(Text("HELOC"), Num(0), Num(0), Num(0)) >>

\* A row of an amount table, by column name.
AmountRow(name_col, name, amount_col, amount) ==
    (name_col :> name) @@ (amount_col :> amount) @@ ("Notes" :> Text(""))

\* The session keys of the amount tables the dashboard keeps.
DashboardTableKeys ==
    {"pf_income_df", "pf_fixed_df", "pf_variable_df", "pf_saving_df",
     "pf_investing_df", "pf_assets_df", "pf_liabilities_df"}

\* The expense tables compute_metrics reads in place of pf_variable_df.
ExpenseSplitKeys == {"pf_essential_df", "pf_nonessential_df"}

\* expected_cols and numeric_cols of each table
NameCol(key) ==
    CASE key = "pf_income_df" -> "Source"
      [] key \in {"pf_fixed_df", "pf_variable_df"} \cup ExpenseSplitKeys -> "Expense"
      [] key \in {"pf_saving_df", "pf_investing_df"} -> "Bucket"
      [] key = "pf_assets_df" -> "Asset"
      [] key = "pf_liabilities_df" -> "Liability"

AmountCol(key) ==
    IF key \in {"pf_assets_df", "pf_liabilities_df"} THEN "Value" ELSE "Monthly Amount"

ExpectedCols(key) == {NameCol(key), AmountCol(key), "Notes"}
NumericCols(key) == {AmountCol(key)}

\* pd.DataFrame(default_rows): the named rows, every amount 0.0
DefaultRows(key, names) ==
    [i \in DOMAIN names |->
        AmountRow(NameCol(key), Text(names[i]), AmountCol(key), Num(0))]

DEFAULT_INCOME == DefaultRows("pf_income_df", <<"Paycheck 1", "Paycheck 2">>)

DEFAULT_FIXED ==
    DefaultRows("pf_fixed_df",
        <<"Mortgage/Rent", "Car payment", "Car insurance", "Phone", "Internet">>)

DEFAULT_VARIABLE ==
    DefaultRows("pf_variable_df",
        <<"Utilities", "Groceries", "Gas/Transit", "Dining out", "Subscriptions",
          "Prescriptions", "Childcare", "Gym/Fitness", "TP Fund", "Pet Expenses",
          "Other">>)

DEFAULT_SAVING ==
    DefaultRows("pf_saving_df",
        <<"Emergency fund", "Entertainment", "Travel", "Gifts", "Cash savings">>)

DEFAULT_INVESTING ==
    DefaultRows("pf_investing_df",
        <<"Brokerage", "401k", "403b", "Traditional IRA", "Roth IRA", "529", "HSA">>)

DEFAULT_ASSETS ==
    DefaultRows("pf_assets_df",
        <<"Checking", "Savings", "HYSA", "Brokerage", "Retirement",
          "Value of Home (minus debt)", "Value of Vehicle (minus debt)">>)

DEFAULT_LIABILITIES == DefaultRows("pf_liabilities_df", <<"Mortgage", "Car loan">>)

\* The keys of the saved paycheck deductions.
ManualKeys ==
    {"pf_manual_taxes", "pf_manual_retirement", "pf_manual_match",
     "pf_manual_benefits", "pf_manual_other_ssi"}

\* The session state the dashboard sets up on its first run.
DashboardDefaults ==
    ("pf_income_df" :> DEFAULT_INCOME) @@ ("pf_fixed_df" :> DEFAULT_FIXED) @@
    ("pf_variable_df" :> DEFAULT_VARIABLE) @@ ("pf_saving_df" :> DEFAULT_SAVING) @@
    ("pf_investing_df" :> DEFAULT_INVESTING) @@ ("pf_assets_df" :> DEFAULT_ASSETS) @@
    ("pf_liabilities_df" :> DEFAULT_LIABILITIES) @@
    [k \in ManualKeys |-> 0] @@
    ("pf_use_gross_breakdown" :> FALSE)

\* The keys compute_metrics reads that the dashboard never sets: the two
\* expense tables start empty and the flag starts off.
CoreDefaults ==
    [k \in ExpenseSplitKeys |-> <<>>] @@ ("pf_use_paycheck_breakdown" :> FALSE)

-----------------------------------------------------------------------------
(* compute_metrics: the debt payoff part *)

\* float(x or 0.0) of a cell that is a number or missing
FloatOr0(cell) == IF cell = None THEN 0 ELSE cell[1]

\* sum_df(df, col): the column's numbers summed, anything else counted as 0
RECURSIVE sum_df(_, _)
sum_df(df, col) ==
    IF df = <<>> THEN 0
    ELSE ToNumeric(Head(df)[col])[1] + sum_df(Tail(df), col)

\* str.strip() on the names the tables hold
Strip(t) == IF t \in {" ", "  "} THEN "" ELSE t

\* name = str(row.get("Debt", "") or "").strip() or "Debt"
DebtName(cell) ==
    LET t == IF cell = None THEN "" ELSE Strip(cell[2])
    IN  IF t = "" THEN "Debt" ELSE t

\* Slip: the APRs are added up without their balances as weights.
RECURSIVE UnweightedNum(_)
UnweightedNum(df) ==
    IF df = <<>> THEN 0
    ELSE FloatOr0(Head(df)["APR %"]) + UnweightedNum(Tail(df))

\* num += bal * apr, over every row of the table
RECURSIVE WeightedNum(_)
WeightedNum(df) ==
    IF df = <<>> THEN 0
    ELSE FloatOr0(Head(df)["Balance"]) * FloatOr0(Head(df)["APR %"])
            + WeightedNum(Tail(df))

\* num / total_debt_balance, in lowest terms
Ratio(n, d) == LET g == GCD(n, d) IN Q(n \div g, d \div g)

\* weighted_apr
WeightedApr(df, total_debt_balance) ==
    IF total_debt_balance > 0
    THEN Some(Ratio(WeightedNum(df), total_debt_balance))
    ELSE None

\* Slip: only negative balances are skipped, blank rows are kept.
SkipRowNegativeOnly(bal) == bal < 0

\* if bal <= 0: continue
SkipRow(bal) == bal <= 0

\* status in ("non_amortizing", "no_payment", "too_long")
NonAmortizingStatuses == {"non_amortizing", "no_payment", "too_long"}

\* (pd.Timestamp.today().normalize() + pd.DateOffset(months=mo)).strftime("%b %Y"):
\* the month, counted from the month the session started in
MonthLabel(now, mo) == <<"month", now + mo>>

\* payoff_date: the month that is mo months from today, or "Now"
PayoffDate(mo, now) ==
    IF mo # None /\ mo[1] > 0 THEN Some(MonthLabel(now, mo[1]))
    ELSE IF mo = Some(0) THEN Some(<<"Now", 0>>)
    ELSE None

\* The entry appended to payoff_rows for one row of the table.
PayoffRow(row, now) ==
    LET bal == FloatOr0(row["Balance"])
        apr == FloatOr0(row["APR %"])
        pay == FloatOr0(row["Monthly Payment"])
        e == EstimateDebtPayoff(bal, Q(apr, 1), pay, DefaultMaxMonths)
    IN  [Debt |-> DebtName(row["Debt"]),
         balance |-> bal,
         apr_pct |-> apr,
         payment |-> pay,
         status |-> e.status,
         reason |-> e.reason,
         monthly_interest |-> e.monthly_interest,
         min_payment_to_amortize |-> e.min_payment_to_amortize,
         months |-> e.months,
         years |-> IF e.months # None THEN Some(Q(e.months[1], 12)) ELSE None,
         total_interest |-> e.total_interest,
         payoff_date |-> PayoffDate(e.months, now)]

\* for _, row in debt_df.iterrows(): ... payoff_rows.append(...)
RECURSIVE PayoffRows(_, _)
PayoffRows(df, now) ==
    IF df = <<>> THEN <<>>
    ELSE IF SkipRow(FloatOr0(Head(df)["Balance"]))
         THEN PayoffRows(Tail(df), now)
         ELSE <<PayoffRow(Head(df), now)>> \o PayoffRows(Tail(df), now)

\* Slip: the list is kept between calls instead of starting empty.
PayoffRowsKept == IF metrics # None THEN metrics[1].debt_payoff_rows ELSE <<>>

\* payoff_rows = []
PayoffRowsInit == <<>>

\* has_non_amortizing, as the loop over the rows leaves it
HasNonAmortizing(payoff_rows) ==
    \E i \in DOMAIN payoff_rows : payoff_rows[i].status \in NonAmortizingStatuses

\* Slip: the guard forgets the rows that cannot be paid off.
OverallGuardIgnoringRows(has_non_amortizing, total_debt_balance, total_monthly_debt_payments, weighted_apr) ==
    /\ total_debt_balance > 0
    /\ total_monthly_debt_payments > 0
    /\ weighted_apr # None

\* The guard of the overall payoff estimate.
OverallGuard(has_non_amortizing, total_debt_balance, total_monthly_debt_payments, weighted_apr) ==
    /\ ~has_non_amortizing
    /\ total_debt_balance > 0
    /\ total_monthly_debt_payments > 0
    /\ weighted_apr # None

\* overall_est = _estimate_debt_payoff(total_debt_balance, weighted_apr,
\*                                     total_monthly_debt_payments)
OverallEst(total_debt_balance, weighted_apr, total_monthly_debt_payments) ==
    EstimateDebtPayoff(total_debt_balance, weighted_apr[1],
                       total_monthly_debt_payments, DefaultMaxMonths)

\* if overall_est["status"] == "paid_off"
OverallSurfaced(overall_est) == overall_est.status = "paid_off"

\* Rational arithmetic on the percentages, each result in lowest terms.
QAdd(x, y) == Ratio(x.n * y.d + y.n * x.d, x.d * y.d)
QSub(x, y) == Ratio(x.n * y.d - y.n * x.d, x.d * y.d)
QMax(x, y) == IF x.n * y.d >= y.n * x.d THEN x ELSE y

\* (part / whole) * 100, for whole > 0
Pct(part, whole) == Ratio(part * 100, whole)

\* net_income = total_income - manual_deductions_total if use_breakdown else total_income
NetIncome(total_income, manual_deductions_total, use_breakdown) ==
    IF use_breakdown THEN total_income - manual_deductions_total ELSE total_income

\* x / y * 100 if y > 0 else None
RateOf(x, y) == IF y > 0 THEN Some(Pct(x, y)) ELSE None

\* Slip: the remainder is not clamped at 0.
UnallocatedPctUnclamped(needs_pct, wants_pct, save_invest_pct) ==
    QSub(Q(100, 1), QAdd(QAdd(needs_pct, wants_pct), save_invest_pct))

\* unallocated_pct = max(0.0, 100 - (needs_pct + wants_pct + save_invest_pct))
UnallocatedPct(needs_pct, wants_pct, save_invest_pct) ==
    QMax(Q(0, 1),
         QSub(Q(100, 1), QAdd(QAdd(needs_pct, wants_pct), save_invest_pct)))

\* Slip: without debt payments the burden is reported as 0 instead of None.
DebtBurdenPctForcedZero(net_income, total_monthly_debt_payments) ==
    IF net_income > 0
    THEN Some(Pct(total_monthly_debt_payments, net_income))
    ELSE None

\* debt_burden_pct
DebtBurdenPct(net_income, total_monthly_debt_payments) ==
    IF net_income > 0 /\ total_monthly_debt_payments > 0
    THEN Some(Pct(total_monthly_debt_payments, net_income))
    ELSE None

\* df.assign(Category=category)
AssignCategory(df, category) ==
    [i \in DOMAIN df |-> df[i] @@ ("Category" :> Text(category))]

\* compute_metrics(), reading the session state ss in the month now
compute_metrics(ss, now) ==
    LET income_df == ss["pf_income_df"]
        fixed_df == ss["pf_fixed_df"]
        essential_df == ss["pf_essential_df"]
        nonessential_df == ss["pf_nonessential_df"]
        saving_df == ss["pf_saving_df"]
        investing_df == ss["pf_investing_df"]
        debt_df == ss["pf_debt_df"]
        assets_df == ss["pf_assets_df"]
        liabilities_df == ss["pf_liabilities_df"]
        total_income == sum_df(income_df, "Monthly Amount")
        manual_taxes == ss["pf_manual_taxes"]
        manual_retirement == ss["pf_manual_retirement"]
        manual_benefits == ss["pf_manual_benefits"]
        manual_other_ssi == ss["pf_manual_other_ssi"]
        employer_match == ss["pf_manual_match"]
        manual_deductions_total ==
            manual_taxes + manual_retirement + manual_benefits + manual_other_ssi
        use_breakdown == ss["pf_use_paycheck_breakdown"]
        net_income == NetIncome(total_income, manual_deductions_total, use_breakdown)
        fixed_total == sum_df(fixed_df, "Monthly Amount")
        essential_total == sum_df(essential_df, "Monthly Amount")
        nonessential_total == sum_df(nonessential_df, "Monthly Amount")
        expenses_total == fixed_total + essential_total + nonessential_total
        saving_total == sum_df(saving_df, "Monthly Amount")
        investing_total == sum_df(investing_df, "Monthly Amount")
        investing_cashflow == investing_total
        investing_display == investing_total + manual_retirement + employer_match
        total_monthly_debt_payments == sum_df(debt_df, "Monthly Payment")
        total_saving_and_investing_cashflow == saving_total + investing_cashflow
        total_outflow ==
            expenses_total + total_saving_and_investing_cashflow
                + total_monthly_debt_payments
        total_assets == sum_df(assets_df, "Value")
        total_liabilities == sum_df(liabilities_df, "Value")
        debt_minimums == total_monthly_debt_payments
        emergency_minimum_monthly == fixed_total + essential_total + debt_minimums
        needs_total == emergency_minimum_monthly
        wants_total == nonessential_total
        save_invest_total == saving_total + investing_cashflow
        needs_pct == Pct(needs_total, net_income)
        wants_pct == Pct(wants_total, net_income)
        save_invest_pct == Pct(save_invest_total, net_income)
        total_debt_balance == sum_df(debt_df, "Balance")
        weighted_apr == WeightedApr(debt_df, total_debt_balance)
        payoff_rows == PayoffRowsInit \o PayoffRows(debt_df, now)
        has_non_amortizing == HasNonAmortizing(payoff_rows)
        guard == OverallGuard(has_non_amortizing, total_debt_balance,
                              total_monthly_debt_payments, weighted_apr)
        overall_est == OverallEst(total_debt_balance, weighted_apr,
                                  total_monthly_debt_payments)
        surfaced == guard /\ OverallSurfaced(overall_est)
    IN  [income_df |-> income_df,
         fixed_df |-> fixed_df,
         essential_df |-> essential_df,
         nonessential_df |-> nonessential_df,
         saving_df |-> saving_df,
         investing_df |-> investing_df,
         debt_df |-> debt_df,
         assets_df |-> assets_df,
         liabilities_df |-> liabilities_df,
         total_income |-> total_income,
         net_income |-> net_income,
         manual_deductions_total |-> manual_deductions_total,
         est_tax |-> 0,
         fixed_total |-> fixed_total,
         essential_total |-> essential_total,
         nonessential_total |-> nonessential_total,
         expenses_total |-> expenses_total,
         saving_total |-> saving_total,
         investing_total |-> investing_total,
         investing_cashflow |-> investing_cashflow,
         investing_display |-> investing_display,
         total_monthly_debt_payments |-> total_monthly_debt_payments,
         total_outflow |-> total_outflow,
         remaining |-> net_income - total_outflow,
         has_debt |-> total_monthly_debt_payments > 0,
         total_assets |-> total_assets,
         total_liabilities |-> total_liabilities,
         net_worth |-> total_assets - total_liabilities,
         employee_retirement |-> manual_retirement,
         company_match |-> employer_match,
         total_retirement_contrib |-> manual_retirement + employer_match,
         investing_rate_of_gross |-> RateOf(investing_display, total_income),
         investing_rate_of_net |-> RateOf(investing_display, net_income),
         debt_minimums |-> debt_minimums,
         emergency_minimum_monthly |-> emergency_minimum_monthly,
         needs_pct |-> IF net_income > 0 THEN Some(needs_pct) ELSE None,
         wants_pct |-> IF net_income > 0 THEN Some(wants_pct) ELSE None,
         save_invest_pct |-> IF net_income > 0 THEN Some(save_invest_pct) ELSE None,
         unallocated_pct |->
            IF net_income > 0
            THEN Some(UnallocatedPct(needs_pct, wants_pct, save_invest_pct))
            ELSE None,
         variable_for_visuals |->
            AssignCategory(essential_df, "Essential")
                \o AssignCategory(nonessential_df, "Non-Essential"),
         total_debt_balance |-> total_debt_balance,
         debt_weighted_apr |-> weighted_apr,
         debt_payoff_rows |-> payoff_rows,
         debt_has_non_amortizing |-> has_non_amortizing,
         debt_overall_months |-> IF surfaced THEN overall_est.months ELSE None,
         debt_overall_interest |->
            IF surfaced THEN overall_est.total_interest ELSE None,
         debt_overall_payoff_date |->
            IF surfaced /\ overall_est.months # None
            THEN Some(MonthLabel(now, overall_est.months[1])) ELSE None,
         debt_burden_pct |-> DebtBurdenPct(net_income, total_monthly_debt_payments)]

-----------------------------------------------------------------------------
(* The session: the tables are edited or imported, the metrics computed *)

\* The longest debt table whose cells are edited or that a snapshot holds.
MaxRows == 2

\* The months the session is kept open over.
MaxMonthsPassed == 1

\* st.session_state as compute_metrics reads it
SessionState == session_state @@ ("pf_debt_df" :> pf_debt_df)

\* Rows as the debt editor hands them over: Balance and Monthly Payment >= 0,
\* 0 <= APR % <= 60; a row just added is blank.
DebtEditorInputs ==
    { DebtRow(None, None, None, None),
      DebtRow(Text("Car loan"), Num(1200), Num(12), Num(100)),
      DebtRow(Text("Credit card"), Num(1200), Num(12), Num(12)),
      DebtRow(Text("Credit card"), Num(12000), Num(1), Num(11)),
      DebtRow(Text("Student loan"), Num(2000), Num(0), Num(1)),
      DebtRow(Text("  "), Num(100), Num(12), Num(2)),
      DebtRow(Text("HELOC"), Num(100), Num(0), Num(0)),
      DebtRow(Text("Medical debt"), Num(0), Num(12), Num(50)) }

\* Rows of a snapshot file: any JSON value in any column.
DebtSnapshotInputs ==
    { DebtRow(Text("Student loan"), Num(2000), Num(0), Num(1)),
      DebtRow(Text("Refund"), Num(0), Num(0), Num(-100)),
      DebtRow(Text("Overpaid"), Num(-100), Num(12), Num(0)),
      DebtRow(Text("Payday loan"), Num(100), Num(1200), Num(150)),
      DebtRow(Text("Promo"), Num(100), Num(-12), Num(10)),
      DebtRow(Text("Typo"), Text("n/a"), None, Num(5)) }

RECURSIVE SeqsUpTo(_, _)
SeqsUpTo(S, n) ==
    IF n = 0 THEN {<<>>}
    ELSE LET shorter == SeqsUpTo(S, n - 1)
         IN  shorter \cup {Append(q, x) : q \in shorter, x \in S}

\* The debt editor with a row deleted, and the table sanitized and stored.
DebtEditorDeleteRow ==
    /\ \E i \in DOMAIN pf_debt_df :
        pf_debt_df' = SanitizeEditorDf(
            [j \in 1..(Len(pf_debt_df) - 1) |->
                IF j < i THEN pf_debt_df[j] ELSE pf_debt_df[j + 1]],
            DebtCols, DebtNumericCols)
    /\ metrics' = None
    /\ called_on' = None
    /\ UNCHANGED <<session_state, today>>
    /\ UNCHANGED callVars
    /\ UNCHANGED sumVars
    /\ UNCHANGED kwVars
    /\ UNCHANGED dashVars

\* The debt editor with a blank row added.
DebtEditorAddRow ==
    /\ Len(pf_debt_df) < MaxRows
    /\ pf_debt_df' = SanitizeEditorDf(
            Append(pf_debt_df, DebtRow(None, None, None, None)),
            DebtCols, DebtNumericCols)
    /\ metrics' = None
    /\ called_on' = None
    /\ UNCHANGED <<session_state, today>>
    /\ UNCHANGED callVars
    /\ UNCHANGED sumVars
    /\ UNCHANGED kwVars
    /\ UNCHANGED dashVars

\* The debt editor with the cells of one row edited.
DebtEditorEditRow ==
    /\ Len(pf_debt_df) <= MaxRows
    /\ \E i \in DOMAIN pf_debt_df, row \in DebtEditorInputs :
        pf_debt_df' = SanitizeEditorDf(
            [pf_debt_df EXCEPT ![i] = row], DebtCols, DebtNumericCols)
    /\ metrics' = None
    /\ called_on' = None
    /\ UNCHANGED <<session_state, today>>
    /\ UNCHANGED callVars
    /\ UNCHANGED sumVars
    /\ UNCHANGED kwVars
    /\ UNCHANGED dashVars

\* The table a data_editor hands over, from the cells of its amount column.
EditedTable(key, cells) ==
    [i \in DOMAIN cells |->
        AmountRow(NameCol(key), Text("item"), AmountCol(key), cells[i])]

\* The amount tables that are edited, and what their editors hand over: the
\* amount columns take numbers >= 0, a row just added is blank.
EditorKeys == {"pf_income_df", "pf_fixed_df", "pf_saving_df", "pf_investing_df"}

EditorInputs(key) ==
    CASE key = "pf_income_df" -> {<<>>, <<Num(50)>>, <<Num(30), None>>}
      [] key = "pf_fixed_df" -> {<<Num(20)>>}
      [] key = "pf_saving_df" -> {<<Num(5)>>}
      [] key = "pf_investing_df" -> {<<Num(10)>>}

\* _edit_table: the edited table is sanitized and stored under its key.
EditTable ==
    /\ \E key \in EditorKeys : \E cells \in EditorInputs(key) :
        session_state' = [session_state EXCEPT ![key] =
            SanitizeEditorDf(EditedTable(key, cells),
                             ExpectedCols(key), NumericCols(key))]
    /\ metrics' = None
    /\ called_on' = None
    /\ UNCHANGED <<pf_debt_df, today>>
    /\ UNCHANGED callVars
    /\ UNCHANGED sumVars
    /\ UNCHANGED kwVars
    /\ UNCHANGED dashVars

\* The "Use paycheck breakdown" toggle, stored under its widget key.
ToggleBreakdown ==
    /\ session_state' =
        [session_state EXCEPT !["pf_use_gross_breakdown"] = ~@]
    /\ metrics' = None
    /\ called_on' = None
    /\ UNCHANGED <<pf_debt_df, today>>
    /\ UNCHANGED callVars
    /\ UNCHANGED sumVars
    /\ UNCHANGED kwVars
    /\ UNCHANGED dashVars

\* The draft deductions as the number inputs hold them (each >= 0).
DraftInputs ==
    { [taxes |-> 10, retirement |-> 4, benefits |-> 3, other_ssi |-> 2, match |-> 6],
      [taxes |-> 60, retirement |-> 0, benefits |-> 0, other_ssi |-> 0, match |-> 0] }

\* "Save breakdown", shown while the toggle is on: the drafts are saved.
SaveBreakdown ==
    /\ session_state["pf_use_gross_breakdown"]
    /\ \E draft \in DraftInputs :
        session_state' =
            [session_state EXCEPT !["pf_manual_taxes"] = draft.taxes,
                                  !["pf_manual_benefits"] = draft.benefits,
                                  !["pf_manual_retirement"] = draft.retirement,
                                  !["pf_manual_other_ssi"] = draft.other_ssi,
                                  !["pf_manual_match"] = draft.match]
    /\ metrics' = None
    /\ called_on' = None
    /\ UNCHANGED <<pf_debt_df, today>>
    /\ UNCHANGED callVars
    /\ UNCHANGED sumVars
    /\ UNCHANGED kwVars
    /\ UNCHANGED dashVars

\* What the essential and non-essential expense tables are set to.
ExpenseSplitInputs(key) ==
    IF key = "pf_essential_df"
    THEN {<<Num(10)>>}
    ELSE {<<Num(5)>>, <<Num(40), Text("tbd")>>}

\* The essential or the non-essential expense table is edited.
EditExpenseSplit ==
    /\ \E key \in ExpenseSplitKeys : \E cells \in ExpenseSplitInputs(key) :
        session_state' = [session_state EXCEPT ![key] =
            SanitizeEditorDf(EditedTable(key, cells),
                             ExpectedCols(key), NumericCols(key))]
    /\ metrics' = None
    /\ called_on' = None
    /\ UNCHANGED <<pf_debt_df, today>>
    /\ UNCHANGED callVars
    /\ UNCHANGED sumVars
    /\ UNCHANGED kwVars
    /\ UNCHANGED dashVars

\* The flag compute_metrics reads is switched.
SetUsePaycheckBreakdown ==
    /\ session_state' =
        [session_state EXCEPT !["pf_use_paycheck_breakdown"] = ~@]
    /\ metrics' = None
    /\ called_on' = None
    /\ UNCHANGED <<pf_debt_df, today>>
    /\ UNCHANGED callVars
    /\ UNCHANGED sumVars
    /\ UNCHANGED kwVars
    /\ UNCHANGED dashVars

\* _safe_float(x): the number, or 0.0 where float(x) raises
SafeFloat(x) == IF IsNum(x) THEN x[1] ELSE 0

\* The names of the tables and of the deductions in a snapshot file.
SnapshotTableName(key) ==
    CASE key = "pf_income_df" -> "income"
      [] key = "pf_fixed_df" -> "fixed_expenses"
      [] key = "pf_variable_df" -> "variable_expenses"
      [] key = "pf_saving_df" -> "saving"
      [] key = "pf_investing_df" -> "investing"
      [] key = "pf_assets_df" -> "assets"
      [] key = "pf_liabilities_df" -> "liabilities"

GrossBreakdownName(key) ==
    CASE key = "pf_manual_taxes" -> "taxes"
      [] key = "pf_manual_retirement" -> "retirement_employee"
      [] key = "pf_manual_match" -> "company_match"
      [] key = "pf_manual_benefits" -> "benefits"
      [] key = "pf_manual_other_ssi" -> "other_ssi"

\* A snapshot file: gb maps the names of the deductions to cells, tables the
\* names of the amount tables to rows (None where the file has none), and
\* debt_details are the debt rows.
Snapshot(gb, tables, debt_details) ==
    [gross_breakdown_optional |-> gb,
     tables |-> tables @@ ("debt_details" :> debt_details)]

\* _load_snapshot_into_state(snapshot): what it leaves in the session keys
\* ss, and in pf_debt_df.
LoadedSession(ss, snapshot) ==
    [k \in DOMAIN ss |->
        IF k \in DashboardTableKeys
        THEN SanitizeEditorDf(snapshot.tables[SnapshotTableName(k)],
                              ExpectedCols(k), NumericCols(k))
        ELSE IF k \in ManualKeys
        THEN SafeFloat(snapshot.gross_breakdown_optional[GrossBreakdownName(k)])
        ELSE ss[k]]

LoadedDebt(snapshot) ==
    SanitizeEditorDf(snapshot.tables["debt_details"], DebtCols, DebtNumericCols)

\* _load_snapshot_into_state(snapshot): the saved deductions and every table
\* the dashboard keeps are set from the file.
LoadSnapshot(snapshot) ==
    /\ session_state' = LoadedSession(session_state, snapshot)
    /\ pf_debt_df' = LoadedDebt(snapshot)
    /\ metrics' = None
    /\ called_on' = None
    /\ UNCHANGED today
    /\ UNCHANGED callVars
    /\ UNCHANGED sumVars
    /\ UNCHANGED kwVars
    /\ UNCHANGED dashVars

\* The snapshot a fresh session exports, with the debt rows replaced.
FreshSnapshot(debt_details) ==
    Snapshot([n \in {GrossBreakdownName(k) : k \in ManualKeys} |-> Num(0)],
             ("income" :> DEFAULT_INCOME) @@ ("fixed_expenses" :> DEFAULT_FIXED) @@
             ("variable_expenses" :> DEFAULT_VARIABLE) @@ ("saving" :> DEFAULT_SAVING) @@
             ("investing" :> DEFAULT_INVESTING) @@ ("assets" :> DEFAULT_ASSETS) @@
             ("liabilities" :> DEFAULT_LIABILITIES),
             debt_details)

\* A snapshot with its debt rows edited by hand is imported.
LoadSnapshotIntoState ==
    \E rows \in SeqsUpTo(DebtSnapshotInputs, MaxRows) :
        LoadSnapshot(FreshSnapshot(rows))

\* Snapshot files of a budget: an empty file, and two files written by hand
\* with amounts missing, not numeric or negative.
BudgetSnapshotInputs ==
    { Snapshot([n \in {GrossBreakdownName(k) : k \in ManualKeys} |-> None],
               [n \in {SnapshotTableName(k) : k \in DashboardTableKeys} |-> None],
               None),
      Snapshot(("taxes" :> Num(10)) @@ ("retirement_employee" :> Num(4)) @@
               ("company_match" :> Num(6)) @@ ("benefits" :> Text("n/a")) @@
               ("other_ssi" :> None),
               ("income" :> EditedTable("pf_income_df", <<Num(50), Text("n/a")>>)) @@
               ("fixed_expenses" :> EditedTable("pf_fixed_df", <<Num(20)>>)) @@
               ("variable_expenses" :> EditedTable("pf_variable_df", <<Num(15)>>)) @@
               ("saving" :> None) @@
               ("investing" :> EditedTable("pf_investing_df", <<Num(10)>>)) @@
               ("assets" :> EditedTable("pf_assets_df", <<Num(100)>>)) @@
               ("liabilities" :> EditedTable("pf_liabilities_df", <<Num(30)>>)),
               <<DebtRow(Text("Car loan"), Num(1200), Num(12), Num(25))>>),
      Snapshot(("taxes" :> Num(0)) @@ ("retirement_employee" :> Num(0)) @@
               ("company_match" :> Num(0)) @@ ("benefits" :> Num(0)) @@
               ("other_ssi" :> Num(0)),
               ("income" :> EditedTable("pf_income_df", <<Num(-20)>>)) @@
               ("fixed_expenses" :> EditedTable("pf_fixed_df", <<Num(20)>>)) @@
               ("variable_expenses" :> None) @@
               ("saving" :> EditedTable("pf_saving_df", <<Num(-5)>>)) @@
               ("investing" :> None) @@
               ("assets" :> None) @@
               ("liabilities" :> None),
               <<DebtRow(Text("Card"), Num(100), Num(12), Num(10))>>) }

\* A snapshot of a budget is imported.
LoadBudgetSnapshot ==
    \E snapshot \in BudgetSnapshotInputs : LoadSnapshot(snapshot)

\* Slip: the Category column is written into the session's own table instead
\* of a copy.
ComputeMetricsAssignsInPlace ==
    /\ metrics' = Some(compute_metrics(SessionState, today))
    /\ called_on' = Some(today)
    /\ session_state' =
        [session_state EXCEPT !["pf_nonessential_df"] = AssignCategory(@, "Non-Essential")]
    /\ UNCHANGED <<pf_debt_df, today>>
    /\ UNCHANGED callVars
    /\ UNCHANGED sumVars
    /\ UNCHANGED kwVars
    /\ UNCHANGED dashVars

\* compute_metrics() is called on the session state.
ComputeMetrics ==
    /\ metrics' = Some(compute_metrics(SessionState, today))
    /\ called_on' = Some(today)
    /\ UNCHANGED <<pf_debt_df, session_state, today>>
    /\ UNCHANGED callVars
    /\ UNCHANGED sumVars
    /\ UNCHANGED kwVars
    /\ UNCHANGED dashVars

\* The session is still open when the next month begins.
MonthPasses ==
    /\ today < MaxMonthsPassed
    /\ today' = today + 1
    /\ UNCHANGED <<pf_debt_df, session_state, metrics, called_on>>
    /\ UNCHANGED callVars
    /\ UNCHANGED sumVars
    /\ UNCHANGED kwVars
    /\ UNCHANGED dashVars

-----------------------------------------------------------------------------
(* _sum_df: the dashboard's column sum *)

MaxSumRows == 3

\* The text cells that read as a number, and the number they read as.
StrToNum(t) == CASE t = "7" -> 7

\* pd.to_numeric(cell, errors="coerce"): None stands for NaN
ToNumericCoerce(cell) ==
    IF IsNum(cell) THEN Some(cell[1])
    ELSE IF Len(cell) = 2 /\ cell[2] \in {"7"} THEN Some(StrToNum(cell[2]))
    ELSE None

\* Slip: the column is cut at its first NaN.
DropFromFirstNa(series) ==
    IF \E i \in DOMAIN series : series[i] = None
    THEN LET first == CHOOSE i \in DOMAIN series :
                        /\ series[i] = None
                        /\ \A j \in 1..(i - 1) : series[j] # None
         IN  [j \in 1..(first - 1) |-> series[j][1]]
    ELSE [j \in DOMAIN series |-> series[j][1]]

\* .fillna(0)
FillNa(series) ==
    [i \in DOMAIN series |-> IF series[i] = None THEN 0 ELSE series[i][1]]

\* .sum(): the values added up from the first row on
RECURSIVE SeriesSum(_)
SeriesSum(series) ==
    IF series = <<>> THEN 0
    ELSE SeriesSum(SubSeq(series, 1, Len(series) - 1)) + series[Len(series)]

\* _sum_df(df, col); df is None or Some(rows)
SumDf(df, col) ==
    IF df = None \/ df[1] = <<>> \/ col \notin DOMAIN df[1][1]
    THEN 0
    ELSE SeriesSum(FillNa([i \in DOMAIN df[1] |-> ToNumericCoerce(df[1][i][col])]))

\* What a cell of the summed column may hold.
SumCellInputs == {Num(5), Num(20), None, Text("n/a"), Text("7")}

\* The tables _sum_df is called on: none, empty, or rows of an amount table.
SumDfInputs ==
    {None} \cup
    {Some([i \in DOMAIN cells |->
            AmountRow("Source", Text("Paycheck"), "Monthly Amount", cells[i])]) :
        cells \in SeqsUpTo(SumCellInputs, MaxSumRows)}

\* The columns asked for: the table's amount column, and one it does not have.
SumColInputs == {"Monthly Amount", "Value"}

\* _sum_df(df, col) is called and returns.
SumDfCall ==
    /\ \E df \in SumDfInputs, col \in SumColInputs :
        /\ sum_args' = Some(<<df, col>>)
        /\ sum_out' = Some(SumDf(df, col))
    /\ UNCHANGED callVars
    /\ UNCHANGED sessionVars
    /\ UNCHANGED kwVars
    /\ UNCHANGED dashVars

-----------------------------------------------------------------------------
(* _sum_by_keywords: the amounts of the rows whose name has a keyword in it *)
(* Names and keywords are sequences of characters.                         *)

MaxKwRows == 2

\* A cell holding NaN.
NaN == <<"NaN", "NaN">>

\* c.lower()
Lower(c) ==
    CASE c = "A" -> "a" [] c = "B" -> "b" [] c = "C" -> "c" [] c = "D" -> "d"
      [] c = "E" -> "e" [] c = "F" -> "f" [] c = "G" -> "g" [] c = "H" -> "h"
      [] c = "I" -> "i" [] c = "J" -> "j" [] c = "K" -> "k" [] c = "L" -> "l"
      [] c = "M" -> "m" [] c = "N" -> "n" [] c = "O" -> "o" [] c = "P" -> "p"
      [] c = "Q" -> "q" [] c = "R" -> "r" [] c = "S" -> "s" [] c = "T" -> "t"
      [] c = "U" -> "u" [] c = "V" -> "v" [] c = "W" -> "w" [] c = "X" -> "x"
      [] c = "Y" -> "y" [] c = "Z" -> "z"
      [] OTHER -> c

\* s.lower()
LowerStr(s) == [i \in DOMAIN s |-> Lower(s[i])]

\* \s
IsSpace(c) == c \in {" ", "\t"}

\* s.strip()
RECURSIVE StripStr(_)
StripStr(s) ==
    IF s = <<>> THEN s
    ELSE IF IsSpace(Head(s)) THEN StripStr(Tail(s))
    ELSE IF IsSpace(s[Len(s)]) THEN StripStr(SubSeq(s, 1, Len(s) - 1))
    ELSE s

\* s with its leading whitespace dropped
RECURSIVE DropSpaces(_)
DropSpaces(s) ==
    IF s # <<>> /\ IsSpace(Head(s)) THEN DropSpaces(Tail(s)) ELSE s

\* Slip: every whitespace character is replaced by a space, runs are kept.
SpacesReplaced(s) == [i \in DOMAIN s |-> IF IsSpace(s[i]) THEN " " ELSE s[i]]

\* re.sub(r"\s+", " ", s)
RECURSIVE CollapseSpaces(_)
CollapseSpaces(s) ==
    IF s = <<>> THEN s
    ELSE IF IsSpace(Head(s)) THEN <<" ">> \o CollapseSpaces(DropSpaces(Tail(s)))
    ELSE <<Head(s)>> \o CollapseSpaces(Tail(s))

\* str(s or ""): None and the empty text are falsy, NaN is not
StrOrEmpty(cell) ==
    IF cell = None THEN <<>>
    ELSE IF cell = NaN THEN <<"n", "a", "n">>
    ELSE cell[2]

\* _norm(s)
Norm(cell) == CollapseSpaces(LowerStr(StripStr(StrOrEmpty(cell))))

\* k in name
Contains(k, name) ==
    \E i \in 0..(Len(name) - Len(k)) : SubSeq(name, i + 1, i + Len(k)) = k

\* Slip: the amount is added once for every keyword found in the name.
KwAddedPerKey(name, amt, keys) ==
    amt * Cardinality({i \in DOMAIN keys : Contains(keys[i], name)})

\* if any(k in name for k in keys): total += float(amt)
KwAdded(name, amt, keys) ==
    IF \E i \in DOMAIN keys : Contains(keys[i], name) THEN amt ELSE 0

\* amt = pd.to_numeric(cell, errors="coerce"); 0.0 if pd.isna(amt)
KwAmount(cell) ==
    LET amt == ToNumericCoerce(cell) IN IF amt = None THEN 0 ELSE amt[1]

\* The loop over df.iterrows(), from the first row on.
RECURSIVE KwLoop(_, _, _, _)
KwLoop(rows, name_col, amount_col, keys) ==
    IF rows = <<>> THEN 0
    ELSE LET row == rows[Len(rows)]
         IN  KwLoop(SubSeq(rows, 1, Len(rows) - 1), name_col, amount_col, keys)
                + KwAdded(Norm(row[name_col]), KwAmount(row[amount_col]), keys)

\* _sum_by_keywords(df, name_col, amount_col, keywords); df is None or Some(rows)
SumByKeywords(df, name_col, amount_col, keywords) ==
    IF \/ df = None
       \/ df[1] = <<>>
       \/ name_col \notin DOMAIN df[1][1]
       \/ amount_col \notin DOMAIN df[1][1]
    THEN 0
    ELSE KwLoop(df[1], name_col, amount_col,
                [j \in DOMAIN keywords |-> LowerStr(keywords[j])])

\* Names an expense row may carry: missing, NaN, and texts with capitals,
\* leading, trailing and repeated whitespace.
KwNameInputs ==
    { None, NaN,
      Text(<<" ", "A", "b", " ">>), Text(<<"a", " ", "\t", "B">>), Text(<<"b">>), Text(<<"a", " ", "b">>) }

KwAmountInputs == {Num(5), Num(20), Text("n/a")}

KwRowInputs ==
    {AmountRow("Expense", name, "Monthly Amount", amt) :
        name \in KwNameInputs, amt \in KwAmountInputs}

KwDfInputs == {None} \cup {Some(rows) : rows \in SeqsUpTo(KwRowInputs, MaxKwRows)}

\* The columns asked for: the table's own, and one it does not have.
KwColInputs ==
    { <<"Expense", "Monthly Amount">>, <<"Source", "Monthly Amount">>,
      <<"Expense", "Value">> }

\* Keyword lists: none, one in capitals with a space, two that both occur in
\* a name, one found in the text of NaN, and the empty keyword.
KwKeywordInputs ==
    { <<>>, <<<<"a", "b">>>>, <<<<"A", " ", "B">>>>, <<<<"b">>, <<"a", "b">>>>, <<<<"a", "n">>>>, <<<<>>>> }

\* _sum_by_keywords is called on the arguments held and returns.
SumByKeywordsCall ==
    /\ kw_out = None
    /\ kw_out' = Some(SumByKeywords(kw_args[1], kw_args[2], kw_args[3], kw_args[4]))
    /\ UNCHANGED kw_args
    /\ UNCHANGED callVars
    /\ UNCHANGED sessionVars
    /\ UNCHANGED sumVars
    /\ UNCHANGED dashVars

-----------------------------------------------------------------------------
(* render_personal_finance_dashboard: the session it keeps *)

\* The draft deductions of the number inputs, and the draft of each saved one.
DraftKeys ==
    {"pf_draft_taxes", "pf_draft_retirement", "pf_draft_match",
     "pf_draft_benefits", "pf_draft_other_ssi"}

DraftKey(key) ==
    CASE key = "pf_manual_taxes" -> "pf_draft_taxes"
      [] key = "pf_manual_retirement" -> "pf_draft_retirement"
      [] key = "pf_manual_match" -> "pf_draft_match"
      [] key = "pf_manual_benefits" -> "pf_draft_benefits"
      [] key = "pf_manual_other_ssi" -> "pf_draft_other_ssi"

\* pf_last_import_sig = "": no import yet
NoSig == <<>>

\* hashlib.sha256(raw).hexdigest(): one signature for each content
Sig(file) == <<"sha256", file.content>>

\* The import queue and the drafts after the first render (None: the key is
\* not in the session).
DashStateDefaults ==
    ("pf_has_pending_import" :> None) @@ ("pf_pending_snapshot" :> None) @@
    ("pf_last_import_sig" :> Some(NoSig)) @@ ("pf_uploader_nonce" :> Some(0)) @@
    [k \in DraftKeys |-> None]

\* The keys the calculations read, and their values in a session.
CalcKeys ==
    DashboardTableKeys \cup ManualKeys \cup {"pf_use_gross_breakdown", "pf_debt_df"}

CalcInputs(ss, debt) ==
    [k \in CalcKeys |-> IF k = "pf_debt_df" THEN debt ELSE ss[k]]

\* The whole session and what is on the page, as one value.
Page ==
    [ss |-> session_state, debt |-> pf_debt_df, ds |-> dash_state,
     up |-> uploaded, dl |-> downloaded, rd |-> rendered.read]

\* json.loads(...) of a file: a dict, or something else
Dict(snapshot) == <<"dict", snapshot>>
NotADict == <<"list">>
IsDict(content) == content[1] = "dict"

\* A file: what json.loads makes of it, the values the calculations read in
\* the session it was exported from (None: written by hand), and which
\* download it is (0: none).
File(content, session) == [content |-> content, session |-> session, nr |-> 0]

\* _apply_pending_snapshot_if_any()
ApplyPendingSnapshotIfAny(w) ==
    LET snap == w.ds["pf_pending_snapshot"]
    IN  IF w.ds["pf_has_pending_import"] # Some(TRUE) THEN w
        ELSE IF snap = None \/ ~IsDict(snap[1])
        THEN [w EXCEPT !.ds = [@ EXCEPT !["pf_has_pending_import"] = Some(FALSE),
                                        !["pf_pending_snapshot"] = None]]
        ELSE LET gb == snap[1][2].gross_breakdown_optional
             IN  [w EXCEPT
                    !.ss = LoadedSession(@, snap[1][2]),
                    !.debt = LoadedDebt(snap[1][2]),
                    !.ds = [k \in DOMAIN @ |->
                        IF k = "pf_has_pending_import" THEN Some(FALSE)
                        ELSE IF k = "pf_pending_snapshot" THEN None
                        ELSE IF k = "pf_draft_taxes" THEN Some(SafeFloat(gb["taxes"]))
                        ELSE IF k = "pf_draft_retirement"
                        THEN Some(SafeFloat(gb["retirement_employee"]))
                        ELSE IF k = "pf_draft_benefits" THEN Some(SafeFloat(gb["benefits"]))
                        ELSE IF k = "pf_draft_other_ssi" THEN Some(SafeFloat(gb["other_ssi"]))
                        ELSE IF k = "pf_draft_match" THEN Some(SafeFloat(gb["company_match"]))
                        ELSE @[k]]]

\* The calculations at the top of the render read the session as it is then.
Calculations(w) == [w EXCEPT !.rd = CalcInputs(w.ss, w.debt)]

\* An interaction with a table editor: one cell is given a value.
DashEdit(key, row, col, value) == [key |-> key, row |-> row, col |-> col, value |-> value]
NoEdit == [key |-> "", row |-> 0, col |-> "", value |-> None]

\* st.data_editor(table): the table, with the edit made in that editor
DataEditor(table, key, edit) ==
    IF edit.key = key /\ edit.row \in DOMAIN table
    THEN [table EXCEPT ![edit.row] = [@ EXCEPT ![edit.col] = edit.value]]
    ELSE table

\* _edit_table of the seven amount tables and the debt editor: what each
\* editor hands over is sanitized and stored under the table's key.
Editors(w, edit) ==
    [w EXCEPT
        !.ss = [k \in DOMAIN @ |->
            IF k \in DashboardTableKeys
            THEN SanitizeEditorDf(DataEditor(@[k], k, edit), ExpectedCols(k), NumericCols(k))
            ELSE @[k]],
        !.debt = SanitizeEditorDf(DataEditor(@, "pf_debt_df", edit),
                                  DebtCols, DebtNumericCols)]

\* With the toggle on, each draft that is not in the session is set to its
\* saved deduction (setdefault).
DraftDefaults(w) ==
    IF w.ss["pf_use_gross_breakdown"]
    THEN [w EXCEPT !.ds =
            [@ EXCEPT !["pf_draft_taxes"] =
                        IF @ = None THEN Some(w.ss["pf_manual_taxes"]) ELSE @,
                      !["pf_draft_retirement"] =
                        IF @ = None THEN Some(w.ss["pf_manual_retirement"]) ELSE @,
                      !["pf_draft_benefits"] =
                        IF @ = None THEN Some(w.ss["pf_manual_benefits"]) ELSE @,
                      !["pf_draft_other_ssi"] =
                        IF @ = None THEN Some(w.ss["pf_manual_other_ssi"]) ELSE @,
                      !["pf_draft_match"] =
                        IF @ = None THEN Some(w.ss["pf_manual_match"]) ELSE @]]
    ELSE w

\* Slip: the pending import is applied after the calculations.
RunCalculatesFirst(w, edit) ==
    DraftDefaults(Editors(ApplyPendingSnapshotIfAny(Calculations(w)), edit))

\* One run of the script in which no button is pressed: the pending import,
\* the calculations, and then the widgets.
Run(w, edit) == DraftDefaults(Editors(Calculations(ApplyPendingSnapshotIfAny(w)), edit))

\* Slip: the company match is left as it was saved.
SaveDraftsButMatch(w) ==
    [w EXCEPT !.ss = [k \in DOMAIN @ |->
        IF k \in ManualKeys \ {"pf_manual_match"} THEN w.ds[DraftKey(k)][1] ELSE @[k]]]

\* "Save breakdown": each saved deduction is set to float(draft or 0.0).
SaveDrafts(w) ==
    [w EXCEPT !.ss = [k \in DOMAIN @ |->
        IF k \in ManualKeys THEN w.ds[DraftKey(k)][1] ELSE @[k]]]

\* A cell as to_json writes it and json.loads reads it back: NaN becomes null.
JsonCell(cell) == IF cell = NaN THEN None ELSE cell

\* df.to_dict(orient="records"), through the file
JsonRows(df) == [i \in DOMAIN df |-> [c \in DOMAIN df[i] |-> JsonCell(df[i][c])]]

\* The snapshot dict the render builds, as the downloaded file holds it.
ExportSnapshot(w) ==
    Snapshot([n \in {GrossBreakdownName(k) : k \in ManualKeys} |->
                 Num(w.ss[CHOOSE k \in ManualKeys : GrossBreakdownName(k) = n])],
             [n \in {SnapshotTableName(k) : k \in DashboardTableKeys} |->
                 JsonRows(w.ss[CHOOSE k \in DashboardTableKeys : SnapshotTableName(k) = n])],
             JsonRows(w.debt))

\* Slip: no uploaded file counts as applied.
NeverAlreadyApplied(sig, last_import_sig) == FALSE

\* already_applied
AlreadyApplied(sig, last_import_sig) == sig = last_import_sig

\* "Apply snapshot now": the uploaded snapshot is queued, its signature kept,
\* and the uploader replaced by a new one.
QueueSnapshot(w) ==
    [w EXCEPT !.ds = [@ EXCEPT !["pf_pending_snapshot"] = Some(w.up[1].content),
                               !["pf_has_pending_import"] = Some(TRUE),
                               !["pf_last_import_sig"] = Some(Sig(w.up[1])),
                               !["pf_uploader_nonce"] = Some(@[1] + 1)],
                 !.up = None]

\* "Reset now" and the setdefault of the run that follows: every pf_ key is
\* deleted and set up again.
ResetSession(w) ==
    [w EXCEPT !.ss = DashboardDefaults @@ CoreDefaults,
              !.debt = DEFAULT_DEBT,
              !.ds = DashStateDefaults]

-----------------------------------------------------------------------------
(* render_personal_finance_dashboard: the figures of the summary *)

\* The characters of a name.
Chars(t) ==
    CASE t = "Utilities" ->
            <<"U", "t", "i", "l", "i", "t", "i", "e", "s">>
      [] t = "Groceries" ->
            <<"G", "r", "o", "c", "e", "r", "i", "e", "s">>
      [] t = "Gas/Transit" ->
            <<"G", "a", "s", "/", "T", "r", "a", "n", "s", "i", "t">>
      [] t = "Dining out" ->
            <<"D", "i", "n", "i", "n", "g", " ", "o", "u", "t">>
      [] t = "Subscriptions" ->
            <<"S", "u", "b", "s", "c", "r", "i", "p", "t", "i", "o", "n", "s">>
      [] t = "Prescriptions" ->
            <<"P", "r", "e", "s", "c", "r", "i", "p", "t", "i", "o", "n", "s">>
      [] t = "Childcare" ->
            <<"C", "h", "i", "l", "d", "c", "a", "r", "e">>
      [] t = "Gym/Fitness" ->
            <<"G", "y", "m", "/", "F", "i", "t", "n", "e", "s", "s">>
      [] t = "TP Fund" ->
            <<"T", "P", " ", "F", "u", "n", "d">>
      [] t = "Pet Expenses" ->
            <<"P", "e", "t", " ", "E", "x", "p", "e", "n", "s", "e", "s">>
      [] t = "Other" ->
            <<"O", "t", "h", "e", "r">>
      [] t = "item" ->
            <<"i", "t", "e", "m">>
      [] t = "" ->
            <<>>

\* The name column of a table, as characters.
AsChars(df, name_col) ==
    [i \in DOMAIN df |->
        [df[i] EXCEPT ![name_col] = IF Len(@) = 2 THEN Text(Chars(@[2])) ELSE @]]

ESSENTIAL_VARIABLE_KEYWORDS ==
    << <<"g", "r", "o", "c", "e", "r", "y">>,
       <<"g", "r", "o", "c", "e", "r", "i", "e", "s">>,
       <<"e", "l", "e", "c", "t", "r", "i", "c">>,
       <<"e", "l", "e", "c", "t", "r", "i", "c", "i", "t", "y">>,
       <<"n", "a", "t", "u", "r", "a", "l", " ", "g", "a", "s">>,
       <<"w", "a", "t", "e", "r">>,
       <<"s", "e", "w", "e", "r">>,
       <<"t", "r", "a", "s", "h">>,
       <<"g", "a", "r", "b", "a", "g", "e">>,
       <<"u", "t", "i", "l", "i", "t", "y">>,
       <<"u", "t", "i", "l", "i", "t", "i", "e", "s">>,
       <<"i", "n", "t", "e", "r", "n", "e", "t">>,
       <<"w", "i", "f", "i">>,
       <<"p", "h", "o", "n", "e">>,
       <<"c", "e", "l", "l">>,
       <<"i", "n", "s", "u", "r", "a", "n", "c", "e">>,
       <<"m", "e", "d", "i", "c", "a", "l">>,
       <<"h", "e", "a", "l", "t", "h">>,
       <<"p", "r", "e", "s", "c", "r", "i", "p", "t", "i", "o", "n">>,
       <<"r", "x">>,
       <<"m", "e", "d", "i", "c", "i", "n", "e">> >>

\* The figures of the header, calculated from the values read.
Figures(read) ==
    LET total_income == SumDf(Some(read["pf_income_df"]), "Monthly Amount")
        manual_deductions_total ==
            read["pf_manual_taxes"] + read["pf_manual_retirement"]
                + read["pf_manual_benefits"] + read["pf_manual_other_ssi"]
        net_income ==
            IF read["pf_use_gross_breakdown"]
            THEN total_income - manual_deductions_total ELSE total_income
        fixed_total == SumDf(Some(read["pf_fixed_df"]), "Monthly Amount")
        variable_total == SumDf(Some(read["pf_variable_df"]), "Monthly Amount")
        expenses_total == fixed_total + variable_total
        saving_total == SumDf(Some(read["pf_saving_df"]), "Monthly Amount")
        investing_total == SumDf(Some(read["pf_investing_df"]), "Monthly Amount")
        total_monthly_debt_payments == SumDf(Some(read["pf_debt_df"]), "Monthly Payment")
        total_outflow ==
            expenses_total + (saving_total + investing_total) + total_monthly_debt_payments
        essential_variable ==
            SumByKeywords(Some(AsChars(read["pf_variable_df"], "Expense")),
                          "Expense", "Monthly Amount", ESSENTIAL_VARIABLE_KEYWORDS)
    IN  [net_income |-> net_income,
         total_outflow |-> total_outflow,
         remaining |-> net_income - total_outflow,
         emergency_minimum_monthly |->
            fixed_total + essential_variable + total_monthly_debt_payments,
         net_worth |-> SumDf(Some(read["pf_assets_df"]), "Value")
                        - SumDf(Some(read["pf_liabilities_df"]), "Value"),
         total_monthly_debt_payments |-> total_monthly_debt_payments]

-----------------------------------------------------------------------------
(* render_personal_finance_dashboard: one action per rerun of the script *)

\* How many snapshots are applied before a reset.
MaxImports == 2

\* How many snapshots are downloaded.
MaxDownloads == 1

\* The edits made in the table editors: one cell of a row is given an amount.
DashEditInputs ==
    { DashEdit("pf_income_df", 1, "Monthly Amount", Num(50)),
      DashEdit("pf_variable_df", 2, "Monthly Amount", Num(15)),
      DashEdit("pf_debt_df", 1, "Monthly Payment", Num(30)) }

\* The values typed into the draft inputs (each >= 0).
DraftEditInputs == {<<"pf_draft_taxes", 60>>, <<"pf_draft_match", 6>>}

\* A snapshot written by hand, with amounts missing or not numeric.
HandWrittenSnapshot ==
    CHOOSE snapshot \in BudgetSnapshotInputs :
        snapshot.gross_breakdown_optional["taxes"] = Num(10)

\* A snapshot with no rows and no deductions.
EmptySnapshot ==
    CHOOSE snapshot \in BudgetSnapshotInputs : snapshot.tables["debt_details"] = None

\* The files at hand for the uploader: two snapshots, and a file that is no
\* dict.
FileInputs ==
    { File(Dict(HandWrittenSnapshot), None),
      File(Dict(EmptySnapshot), None),
      File(NotADict, None) }

\* The script, started by an interaction, has run to its end and left w.
Rendered(w, by) ==
    /\ session_state' = w.ss
    /\ pf_debt_df' = w.debt
    /\ dash_state' = w.ds
    /\ uploaded' = w.up
    /\ downloaded' = w.dl
    /\ rendered' = [read |-> w.rd, by |-> by]
    /\ UNCHANGED <<today, metrics, called_on>>
    /\ UNCHANGED callVars
    /\ UNCHANGED sumVars
    /\ UNCHANGED kwVars

\* A cell of a table is edited: the script reruns with the edit in its editor.
RenderAfterEdit ==
    \E edit \in DashEditInputs :
        /\ edit.row \in DOMAIN (IF edit.key = "pf_debt_df"
                                 THEN pf_debt_df ELSE session_state[edit.key])
        /\ Rendered(Run(Page, edit), "edit")

\* The toggle is switched: its key holds the new value when the script reruns.
RenderAfterToggle ==
    \E on \in {~session_state["pf_use_gross_breakdown"]} :
        Rendered(Run([Page EXCEPT !.ss["pf_use_gross_breakdown"] = on], NoEdit), "toggle")

\* A draft input, shown while the toggle is on, is given a value.
RenderAfterDraftEdit ==
    /\ session_state["pf_use_gross_breakdown"]
    /\ \E d \in DraftEditInputs :
        Rendered(Run([Page EXCEPT !.ds[d[1]] = Some(d[2])], NoEdit), "draft")

\* "Save breakdown", shown while the toggle is on: the run that reaches the
\* button saves the drafts and st.rerun() starts the script again.
RenderSaveBreakdown ==
    /\ session_state["pf_use_gross_breakdown"]
    /\ Rendered(Run(SaveDrafts(Run(Page, NoEdit)), NoEdit), "save")

\* A file is put into the uploader.
RenderUpload ==
    \E file \in FileInputs :
        Rendered(Run([Page EXCEPT !.up = Some(file)], NoEdit), "upload")

\* The downloaded snapshot is put into the uploader.
RenderUploadDownloaded ==
    /\ downloaded # None
    /\ Rendered(Run([Page EXCEPT !.up = downloaded], NoEdit), "upload")

\* "Apply snapshot now", shown for an uploaded snapshot whose signature is not
\* the last one applied: the snapshot is queued and st.rerun() starts the
\* script again.
RenderApplySnapshot ==
    /\ uploaded # None
    /\ IsDict(uploaded[1].content)
    /\ "tables" \in DOMAIN uploaded[1].content[2]
    /\ ~AlreadyApplied(Sig(uploaded[1]), dash_state["pf_last_import_sig"][1])
    /\ dash_state["pf_uploader_nonce"][1] < MaxImports
    /\ Rendered(Run(QueueSnapshot(Run(Page, NoEdit)), NoEdit), "apply")

\* The snapshot of the last run is downloaded.
RenderDownload ==
    LET nr == IF downloaded = None THEN 0 ELSE downloaded[1].nr
    IN  /\ nr < MaxDownloads
        /\ \E file \in {[File(Dict(ExportSnapshot(Page)),
                              Some(CalcInputs(session_state, pf_debt_df)))
                            EXCEPT !.nr = nr + 1]} :
            Rendered(Run([Page EXCEPT !.dl = Some(file)], NoEdit), "download")

\* "Reset now": every pf_ key is deleted and st.rerun() starts the script
\* again; the uploader may or may not keep its file.
RenderReset ==
    \E up \in {None, uploaded} :
        Rendered(Run([ResetSession(Run(Page, NoEdit)) EXCEPT !.up = up], NoEdit), "reset")

\* Any other interaction reruns the script.
Rerender ==
    \E edit \in {NoEdit} : Rendered(Run(Page, edit), "other")

-----------------------------------------------------------------------------
(* Specifications *)

\* The state after construction, the arguments of _sum_by_keywords aside.
Start ==
    /\ pc = "idle"
    /\ balance = 0
    /\ apr_pct = Q(0, 1)
    /\ payment = 0
    /\ max_months = DefaultMaxMonths
    /\ b = NoCall.b
    /\ months = NoCall.months
    /\ total_interest = NoCall.total_interest
    /\ est = None
    /\ raised = FALSE
    /\ pf_debt_df = DEFAULT_DEBT
    /\ session_state = DashboardDefaults @@ CoreDefaults
    /\ today = 0
    /\ metrics = None
    /\ called_on = None
    /\ sum_args = None
    /\ sum_out = None

\* The page after its first render.
FirstRender ==
    /\ dash_state = DashStateDefaults
    /\ uploaded = None
    /\ downloaded = None
    /\ rendered = [read |-> CalcInputs(session_state, pf_debt_df), by |-> "first"]

Init ==
    /\ Start
    /\ kw_args = <<None, "Expense", "Monthly Amount", <<>>>>
    /\ kw_out = None
    /\ FirstRender

\* What the session may hold under the keys of the import queue when a render
\* starts: the flag, and the pending snapshot.
PendingInputs ==
    {None, Some(TRUE)} \X {None, Some(NotADict), Some(Dict(HandWrittenSnapshot))}

\* A render about to start, on any import queue.
PendingInit ==
    /\ Start
    /\ kw_args = <<None, "Expense", "Monthly Amount", <<>>>>
    /\ kw_out = None
    /\ \E q \in PendingInputs :
        dash_state = [DashStateDefaults EXCEPT !["pf_has_pending_import"] = q[1],
                                               !["pf_pending_snapshot"] = q[2]]
    /\ uploaded = None
    /\ downloaded = None
    /\ rendered = [read |-> CalcInputs(session_state, pf_debt_df), by |-> "first"]

\* _sum_by_keywords about to be called, on any of the arguments.
KwInit ==
    /\ Start
    /\ \E df \in KwDfInputs, cols \in KwColInputs, keywords \in KwKeywordInputs :
        kw_args = <<df, cols[1], cols[2], keywords>>
    /\ kw_out = None
    /\ FirstRender

PayoffNext == Call \/ LoopIter \/ LoopExit

PayoffSpec == Init /\ [][PayoffNext]_vars

\* The debt table of the session: edited, imported, and the metrics computed.
Next ==
    \/ DebtEditorDeleteRow
    \/ DebtEditorAddRow
    \/ DebtEditorEditRow
    \/ LoadSnapshotIntoState
    \/ ComputeMetrics
    \/ MonthPasses

Spec == Init /\ [][Next]_vars

\* The budget of the session: income, expenses, saving and the deductions.
BudgetNext ==
    \/ EditTable
    \/ ToggleBreakdown
    \/ SaveBreakdown
    \/ EditExpenseSplit
    \/ SetUsePaycheckBreakdown
    \/ LoadBudgetSnapshot
    \/ ComputeMetrics

BudgetSpec == Init /\ [][BudgetNext]_vars

\* A running call always takes its next step.
PayoffFairSpec == PayoffSpec /\ WF_vars(LoopIter) /\ WF_vars(LoopExit)

SumNext == SumDfCall
SumSpec == Init /\ [][SumNext]_vars

KwNext == SumByKeywordsCall
KwSpec == KwInit /\ [][KwNext]_vars

\* The page: every interaction reruns the script.
DashNext ==
    \/ RenderAfterEdit
    \/ RenderAfterToggle
    \/ RenderAfterDraftEdit
    \/ RenderSaveBreakdown
    \/ RenderUpload
    \/ RenderApplySnapshot
    \/ RenderReset
    \/ Rerender

DashSpec == Init /\ [][DashNext]_vars

\* The page with its snapshots exported and brought back.
ExportNext ==
    \/ RenderAfterEdit
    \/ RenderAfterToggle
    \/ RenderAfterDraftEdit
    \/ RenderSaveBreakdown
    \/ RenderDownload
    \/ RenderUploadDownloaded
    \/ RenderApplySnapshot

ExportSpec == Init /\ [][ExportNext]_vars

\* The page, from a render that starts on any import queue.
PendingSpec == PendingInit /\ [][DashNext]_vars

-----------------------------------------------------------------------------
(* Claims about _estimate_debt_payoff, checked under PayoffSpec *)

\* The arguments of the call, compared exactly (no rounding):
\* monthly rate > 0, and payment <= balance * monthly rate.
RatePositive == apr_pct.n > 0
PaymentCoversNoPrincipal == payment * apr_pct.d * 1200 <= balance * apr_pct.n
\* balance * monthly rate in whole units, from the arguments alone
InterestOnOriginalBalance == (balance * apr_pct.n) \div (apr_pct.d * 1200)

\* C1: once the loop is reached (balance > 0, monthly rate > 0, payment above
\* the monthly interest), it starts from months = 0 and b = balance, every
\* iteration runs on a balance > 0, strictly lowers it and counts one month,
\* and a return with b <= 0 is paid_off with months equal to the number of
\* iterations run, which is within max_months.
C1_BalanceStrictlyDecreases ==
    [][ /\ (pc # "loop" /\ pc' = "loop") =>
            /\ balance' > 0 /\ apr_pct'.n > 0
            /\ payment' * apr_pct'.d * 1200 > balance' * apr_pct'.n
            /\ months' = 0 /\ b' = balance'
        /\ (pc = "loop" /\ pc' = "loop") =>
            /\ b > 0 /\ b' < b /\ months' = months + 1
        /\ (pc = "loop" /\ pc' = "returned" /\ b <= 0) =>
            /\ est'.status = "paid_off"
            /\ est'.months = Some(months)
            /\ months <= max_months
      ]_vars

C1_Witness ==
    /\ pc = "returned" /\ est.status = "paid_off"
    /\ RatePositive /\ months >= 3 /\ b <= 0

\* C2: the call terminates: the loop never counts more than max_months
\* months, with the balance still > 0 after max_months iterations the next
\* step returns too_long, and a call in the loop always returns.
C2_LoopBounded ==
    /\ [](pc = "loop" => months <= max_months)
    /\ [][ (pc = "loop" /\ months >= max_months /\ b > 0) =>
              (pc' = "returned" /\ est'.status = "too_long") ]_vars
    /\ (pc = "loop" ~> pc = "returned")

C2_Witness ==
    /\ pc = "returned" /\ est.status = "too_long"
    /\ max_months = DefaultMaxMonths /\ months = DefaultMaxMonths /\ b > 0

\* C3: with balance > 0, payment > 0, monthly rate > 0 and payment <= balance *
\* monthly rate (equality included), the call has returned non_amortizing with
\* months and total_interest None and min_payment_to_amortize =
\* monthly_interest + 1, without entering the loop.
C3_NonAmortizing ==
    (pc # "idle" /\ balance > 0 /\ payment > 0 /\ RatePositive
        /\ PaymentCoversNoPrincipal) =>
      /\ pc = "returned"
      /\ est.status = "non_amortizing"
      /\ est.months = None
      /\ est.total_interest = None
      /\ est.monthly_interest = InterestOnOriginalBalance
      /\ est.min_payment_to_amortize = InterestOnOriginalBalance + 1
      /\ est.reason # Some("Payment doesn't reduce principal.")

C3_Witness ==
    /\ pc = "returned" /\ est.status = "non_amortizing"
    /\ balance > 0 /\ payment > 0 /\ RatePositive
    /\ payment * apr_pct.d * 1200 = balance * apr_pct.n

\* C4: with balance > 0 and payment <= 0 the call returns no_payment with
\* months and total_interest None whatever the APR, and
\* min_payment_to_amortize is monthly_interest + 1 when the monthly rate is
\* > 0 and 0 when it is not.
C4_NoPayment ==
    (pc # "idle" /\ balance > 0 /\ payment <= 0) =>
      /\ pc = "returned"
      /\ est.status = "no_payment"
      /\ est.months = None
      /\ est.total_interest = None
      /\ (RatePositive =>
            est.min_payment_to_amortize = InterestOnOriginalBalance + 1)
      /\ (~RatePositive => est.min_payment_to_amortize = 0)

C4_Witness ==
    /\ pc = "returned" /\ est.status = "no_payment"
    /\ balance > 0 /\ payment <= 0 /\ apr_pct.n <= 0

\* C5: with balance > 0, payment > 0 and APR <= 0 the call returns paid_off
\* with total_interest 0 and months the least n with n * payment >= balance.
C5_NoInterestPayoff ==
    (pc # "idle" /\ balance > 0 /\ payment > 0 /\ ~RatePositive) =>
      /\ pc = "returned"
      /\ est.status = "paid_off"
      /\ est.total_interest = Some(0)
      /\ est.months # None
      /\ est.months[1] * payment >= balance
      /\ (est.months[1] - 1) * payment < balance

C5_Witness ==
    /\ pc = "returned" /\ est.status = "paid_off"
    /\ balance = 1200 /\ payment = 100 /\ apr_pct = Q(0, 1)
    /\ est.months = Some(12)

\* C6: with balance <= 0 the call returns paid_off with months 0 and
\* total_interest 0, whatever the APR and the payment.
C6_NothingOwed ==
    (pc # "idle" /\ balance <= 0) =>
      /\ pc = "returned"
      /\ est.status = "paid_off"
      /\ est.months = Some(0)
      /\ est.total_interest = Some(0)

C6_Witness ==
    /\ pc = "returned" /\ est.status = "paid_off"
    /\ balance <= 0 /\ payment <= 0 /\ RatePositive

\* C7: a too_long result comes after max_months iterations with the balance
\* still > 0; its months is None, its total_interest is the interest
\* accumulated over those iterations (what was paid less what the balance
\* fell by), and its monthly_interest is the monthly rate times the original
\* balance.
C7_TooLongFields ==
    (pc = "returned" /\ est.status = "too_long") =>
      /\ months = max_months /\ b > 0
      /\ est.months = None
      /\ est.total_interest = Some(total_interest)
      /\ total_interest = max_months * payment - (balance - b)
      /\ est.monthly_interest = InterestOnOriginalBalance

C7_Witness ==
    /\ pc = "returned" /\ est.status = "too_long"
    /\ max_months = DefaultMaxMonths
    /\ est.monthly_interest # Times(b, MonthlyRate(apr_pct))

-----------------------------------------------------------------------------
(* Claims about the debt part of compute_metrics, checked under Spec *)

\* The cells of row i of the stored debt table (sanitized: all numbers).
Bal(i) == pf_debt_df[i]["Balance"][1]
Apr(i) == pf_debt_df[i]["APR %"][1]
Pay(i) == pf_debt_df[i]["Monthly Payment"][1]

\* The rows that are included: those with balance > 0.
Included == {i \in DOMAIN pf_debt_df : Bal(i) > 0}

\* The status the estimator gives row i.
RowStatus(i) == EstimateDebtPayoff(Bal(i), Q(Apr(i), 1), Pay(i), DefaultMaxMonths).status

\* The columns' totals over all rows, by index.
RECURSIVE BalanceUpTo(_)
BalanceUpTo(n) == IF n = 0 THEN 0 ELSE Bal(n) + BalanceUpTo(n - 1)
RECURSIVE PaymentUpTo(_)
PaymentUpTo(n) == IF n = 0 THEN 0 ELSE Pay(n) + PaymentUpTo(n - 1)
RECURSIVE BalanceTimesAprUpTo(_)
BalanceTimesAprUpTo(n) ==
    IF n = 0 THEN 0 ELSE Bal(n) * Apr(n) + BalanceTimesAprUpTo(n - 1)
TotalBalance == BalanceUpTo(Len(pf_debt_df))
TotalPayment == PaymentUpTo(Len(pf_debt_df))

\* The four guards of the overall estimate.
FourGuards ==
    /\ \A i \in Included : RowStatus(i) \notin {"non_amortizing", "no_payment", "too_long"}
    /\ TotalBalance > 0
    /\ TotalPayment > 0
    /\ metrics[1].debt_weighted_apr # None

\* The single-debt evaluator on the combined triple (total balance, balance-
\* weighted APR, total payment); used where the total balance is > 0.
CombinedEstimate ==
    EstimateDebtPayoff(TotalBalance,
                       Q(BalanceTimesAprUpTo(Len(pf_debt_df)), TotalBalance),
                       TotalPayment, DefaultMaxMonths)

\* C8: an overall projection is surfaced (debt_overall_months is not None)
\* only if no included row is non_amortizing, no_payment or too_long, the
\* total balance and the total payment are > 0, the weighted APR is defined,
\* and the evaluator on the combined triple returned paid_off.
C8_OverallOnlyUnderGuards ==
    (metrics # None /\ metrics[1].debt_overall_months # None) =>
        /\ FourGuards
        /\ CombinedEstimate.status = "paid_off"

C8_Witness ==
    /\ metrics # None
    /\ metrics[1].debt_overall_months # None
    /\ Cardinality(Included) >= 2

C10_PayoffRowsAndFlag ==
    metrics # None =>
        LET rows == metrics[1].debt_payoff_rows
        IN  /\ Len(rows) = Cardinality(Included)
            /\ \A i \in Included :
                LET k == Cardinality({j \in Included : j <= i})
                IN  /\ rows[k].balance = Bal(i)
                    /\ rows[k].apr_pct = Apr(i)
                    /\ rows[k].payment = Pay(i)
                    /\ rows[k].status = RowStatus(i)
            /\ metrics[1].debt_has_non_amortizing <=>
                \E i \in Included :
                    RowStatus(i) \in {"non_amortizing", "no_payment", "too_long"}

\* A blank row with stray payment data ahead of an included row that is
\* too_long.
C10_Witness ==
    /\ metrics # None
    /\ Len(pf_debt_df) = 2
    /\ Bal(1) <= 0 /\ Pay(1) > 0
    /\ Bal(2) > 0 /\ RowStatus(2) = "too_long"
    /\ metrics[1].debt_has_non_amortizing
    /\ Len(metrics[1].debt_payoff_rows) = 1

-----------------------------------------------------------------------------
(* Claims about compute_metrics on changed debt rows, checked under Spec *)

\* What compute_metrics returns in the month of the last call when the debt
\* table is df and the rest of the session state is as it is.
MetricsWithDebts(df) ==
    compute_metrics([SessionState EXCEPT !["pf_debt_df"] = df], called_on[1])

\* The debt payoff results of a returned dict.
DebtResults(m) ==
    <<m.debt_payoff_rows, m.debt_has_non_amortizing, m.debt_weighted_apr,
      m.debt_overall_months, m.debt_overall_interest>>

\* The debt table without its rows of balance <= 0.
WithoutNothingOwed == SelectSeq(pf_debt_df, LAMBDA row : row["Balance"][1] > 0)

\* C11 as stated: the rows with balance <= 0 contribute nothing: without them
\* the payoff list, debt_has_non_amortizing, the weighted APR and the overall
\* months and interest are what they are with them.
C11_NothingOwedContributesNothing ==
    metrics # None =>
        DebtResults(metrics[1]) = DebtResults(MetricsWithDebts(WithoutNothingOwed))

\* The balances, and the balances times their APRs, summed over the rows with
\* balance > 0 among the first n rows.
RECURSIVE OwedBalanceUpTo(_)
OwedBalanceUpTo(n) ==
    IF n = 0 THEN 0
    ELSE (IF Bal(n) > 0 THEN Bal(n) ELSE 0) + OwedBalanceUpTo(n - 1)
RECURSIVE OwedBalanceTimesAprUpTo(_)
OwedBalanceTimesAprUpTo(n) ==
    IF n = 0 THEN 0
    ELSE (IF Bal(n) > 0 THEN Bal(n) * Apr(n) ELSE 0) + OwedBalanceTimesAprUpTo(n - 1)

\* C12 as stated: the weighted APR is the sum of balance * APR over the sum of
\* the balances, both taken over exactly the rows with balance > 0, and it is
\* None when the total balance is not > 0.
C12_WeightedAprOverOwedRows ==
    metrics # None =>
        IF TotalBalance > 0
        THEN metrics[1].debt_weighted_apr =
                Some(Ratio(OwedBalanceTimesAprUpTo(Len(pf_debt_df)),
                           OwedBalanceUpTo(Len(pf_debt_df))))
        ELSE metrics[1].debt_weighted_apr = None

-----------------------------------------------------------------------------
(* Claims about the budget part of compute_metrics, checked under BudgetSpec *)

\* The income entered and the saved deductions of the session state.
GrossIncome == sum_df(session_state["pf_income_df"], "Monthly Amount")
Deductions ==
    session_state["pf_manual_taxes"] + session_state["pf_manual_retirement"]
        + session_state["pf_manual_benefits"] + session_state["pf_manual_other_ssi"]

\* C13 as stated: with the dashboard's "Use paycheck breakdown" toggle on, the
\* net income compute_metrics reports is the gross income less taxes, employee
\* retirement, benefits and other/SSI; with the toggle off it is the gross
\* income.
C13_DashboardToggleSetsNetIncome ==
    metrics # None =>
        metrics[1].net_income =
            IF session_state["pf_use_gross_breakdown"]
            THEN GrossIncome - Deductions
            ELSE GrossIncome

\* C13, what compute_metrics does instead: its net income follows the session
\* flag pf_use_paycheck_breakdown, which the dashboard's toggle does not set:
\* the gross income less taxes, employee retirement, benefits and other/SSI
\* (the company match not subtracted) when that flag is on, the gross income
\* when it is off.
C13_PaycheckFlagSetsNetIncome ==
    metrics # None =>
        /\ metrics[1].manual_deductions_total = Deductions
        /\ metrics[1].net_income =
            IF session_state["pf_use_paycheck_breakdown"]
            THEN GrossIncome - Deductions
            ELSE GrossIncome

\* The toggle on with deductions and a company match saved, and the net income
\* reported is still the gross income.
C13_Witness ==
    /\ metrics # None
    /\ session_state["pf_use_gross_breakdown"]
    /\ Deductions > 0
    /\ session_state["pf_manual_match"] > 0
    /\ GrossIncome > Deductions
    /\ metrics[1].net_income = GrossIncome

\* Every amount summed by the last call is non-negative.
NonNegativeTotals(m) ==
    /\ m.total_income >= 0
    /\ m.manual_deductions_total >= 0
    /\ m.fixed_total >= 0
    /\ m.essential_total >= 0
    /\ m.nonessential_total >= 0
    /\ m.saving_total >= 0
    /\ m.investing_total >= 0
    /\ m.total_monthly_debt_payments >= 0

QLeq(x, y) == x.n * y.d <= y.n * x.d

\* needs_pct + wants_pct + save_invest_pct of a result with net income > 0
AllocatedPct(m) == QAdd(QAdd(m.needs_pct[1], m.wants_pct[1]), m.save_invest_pct[1])

\* C14, as stated: for non-negative inputs with net income > 0 the needs, wants
\* and save/invest percentages sum to at most 100 and, with unallocated_pct,
\* to exactly 100.
C14_SplitSumsTo100 ==
    (metrics # None /\ NonNegativeTotals(metrics[1]) /\ metrics[1].net_income > 0) =>
        /\ QLeq(AllocatedPct(metrics[1]), Q(100, 1))
        /\ QAdd(AllocatedPct(metrics[1]), metrics[1].unallocated_pct[1]) = Q(100, 1)

\* C14, amended: for non-negative inputs with net income > 0 every percentage
\* of the split is non-negative; while needs, wants and save/invest together
\* stay within 100% of net income, unallocated_pct is the remainder and the
\* four sum to 100; once they exceed 100%, unallocated_pct is 0 and the four
\* sum to more than 100.
C14_SplitSumsTo100UnlessOverspent ==
    (metrics # None /\ NonNegativeTotals(metrics[1]) /\ metrics[1].net_income > 0) =>
        /\ QLeq(Q(0, 1), metrics[1].needs_pct[1])
        /\ QLeq(Q(0, 1), metrics[1].wants_pct[1])
        /\ QLeq(Q(0, 1), metrics[1].save_invest_pct[1])
        /\ IF QLeq(AllocatedPct(metrics[1]), Q(100, 1))
           THEN QAdd(AllocatedPct(metrics[1]), metrics[1].unallocated_pct[1]) = Q(100, 1)
           ELSE metrics[1].unallocated_pct[1] = Q(0, 1)

\* Outflows above a positive net income: the split is over 100% and nothing is
\* unallocated.
C14_Witness ==
    /\ metrics # None
    /\ NonNegativeTotals(metrics[1])
    /\ metrics[1].net_income > 0
    /\ metrics[1].nonessential_total > 0
    /\ ~QLeq(AllocatedPct(metrics[1]), Q(100, 1))
    /\ metrics[1].unallocated_pct = Some(Q(0, 1))

\* C15: after a call with net income <= 0, needs_pct, wants_pct,
\* save_invest_pct, unallocated_pct, investing_rate_of_net and debt_burden_pct
\* are all None; debt_burden_pct is also None whenever the total monthly debt
\* payments are not > 0, and otherwise it is total payments / net income * 100.
C15_IncomeRatiosNoneOrDefined ==
    metrics # None =>
        /\ metrics[1].net_income <= 0 =>
            /\ metrics[1].needs_pct = None
            /\ metrics[1].wants_pct = None
            /\ metrics[1].save_invest_pct = None
            /\ metrics[1].unallocated_pct = None
            /\ metrics[1].investing_rate_of_net = None
            /\ metrics[1].debt_burden_pct = None
        /\ ~(metrics[1].total_monthly_debt_payments > 0) =>
            metrics[1].debt_burden_pct = None
        /\ (metrics[1].net_income > 0 /\ metrics[1].total_monthly_debt_payments > 0) =>
            metrics[1].debt_burden_pct =
                Some(Ratio(metrics[1].total_monthly_debt_payments * 100,
                           metrics[1].net_income))

\* A negative net income with debt payments and investing to divide: every
\* ratio over net income is None.
C15_Witness ==
    /\ metrics # None
    /\ metrics[1].net_income < 0
    /\ metrics[1].total_monthly_debt_payments > 0
    /\ metrics[1].fixed_total > 0
    /\ metrics[1].needs_pct = None
    /\ metrics[1].investing_rate_of_net = None
    /\ metrics[1].debt_burden_pct = None

\* C16: no call of _estimate_debt_payoff reaches an error state, whatever is
\* passed as balance, APR or payment (missing, non-numeric, in or out of range).
C16_NeverRaises == ~raised

\* The debt table with every negative APR replaced by 0.
AprsClamped ==
    [i \in DOMAIN pf_debt_df |->
        [pf_debt_df[i] EXCEPT !["APR %"] = IF Apr(i) < 0 THEN Num(0) ELSE @]]

\* What a returned dict says about the debts, the echoed APR column aside.
DebtOutputs(m) ==
    <<[i \in DOMAIN m.debt_payoff_rows |->
          <<m.debt_payoff_rows[i].status, m.debt_payoff_rows[i].months,
            m.debt_payoff_rows[i].monthly_interest,
            m.debt_payoff_rows[i].min_payment_to_amortize>>],
      m.debt_has_non_amortizing, m.debt_weighted_apr,
      m.debt_overall_months, m.debt_overall_interest>>

\* C17: compute_metrics treats a debt row with a negative APR as one with APR 0:
\* the per-row estimates, debt_has_non_amortizing, the weighted APR and the
\* overall months and interest are those of the table with the negative APRs
\* set to 0.
C17_NegativeAprAsZero ==
    metrics # None => DebtOutputs(metrics[1]) = DebtOutputs(MetricsWithDebts(AprsClamped))

\* A call of compute_metrics that follows another with nothing written to the
\* session in between.
CalledAgain ==
    /\ metrics # None
    /\ metrics' # None
    /\ called_on' # called_on \/ metrics' # metrics
    /\ UNCHANGED <<pf_debt_df, session_state>>

C19_CallLeavesSessionAlone ==
    [][(metrics' # None /\ (metrics' # metrics \/ called_on' # called_on))
        => UNCHANGED <<pf_debt_df, session_state>>]_vars

\* A call has returned the tables it read, one of them with the Category column
\* it assigns on a copy, and the session's table has no such column.
C19_Witness ==
    /\ metrics # None
    /\ metrics[1].debt_df = pf_debt_df
    /\ Len(pf_debt_df) > 0
    /\ metrics[1].income_df = session_state["pf_income_df"]
    /\ Len(metrics[1].variable_for_visuals) > 0
    /\ \A i \in DOMAIN session_state["pf_nonessential_df"] :
        "Category" \notin DOMAIN session_state["pf_nonessential_df"][i]

\* The numbers of the column's cells, a cell that is no number counted as 0,
\* summed over a set of rows.
RECURSIVE NumbersTotal(_, _, _)
NumbersTotal(rows, col, S) ==
    IF S = {} THEN 0
    ELSE LET i == CHOOSE j \in S : TRUE
             v == ToNumericCoerce(rows[i][col])
         IN  (IF v = None THEN 0 ELSE v[1]) + NumbersTotal(rows, col, S \ {i})

\* The orders the rows of a table can be put in.
Reorderings(rows) ==
    {[i \in DOMAIN rows |-> rows[p[i]]] : p \in Permutations(DOMAIN rows)}

\* C20: _sum_df returns 0 for a table that is None or empty and for a column
\* the table does not have; otherwise it returns the sum of the column's
\* numbers, a missing or non-numeric cell counting as 0 and the other rows
\* still summed; and it returns the same for every order of the rows.
C20_SumDfTotalsNumbersInAnyOrder ==
    sum_args # None =>
        LET df == sum_args[1][1]
            col == sum_args[1][2]
        IN  IF df = None \/ df[1] = <<>> \/ col \notin DOMAIN df[1][1]
            THEN sum_out = Some(0)
            ELSE /\ sum_out = Some(NumbersTotal(df[1], col, DOMAIN df[1]))
                 /\ \A reordered \in Reorderings(df[1]) :
                        SumDf(Some(reordered), col) = sum_out[1]

\* A call on three rows whose cells are a non-numeric text, a number and a
\* missing value, in that order: the number is what comes back.
C20_Witness ==
    /\ sum_args # None
    /\ sum_args[1][1] # None
    /\ Len(sum_args[1][1][1]) = 3
    /\ sum_args[1][2] = "Monthly Amount"
    /\ sum_args[1][1][1][1]["Monthly Amount"] = Text("n/a")
    /\ sum_args[1][1][1][2]["Monthly Amount"] = Num(20)
    /\ sum_args[1][1][1][3]["Monthly Amount"] = None
    /\ sum_out = Some(20)

\* The arguments of the _sum_by_keywords call, and whether it has a table
\* with both columns to go through.
KwDf == kw_args[1]
KwNameCol == kw_args[2]
KwAmountCol == kw_args[3]
KwKeywords == kw_args[4]
KwHasRows ==
    /\ KwDf # None
    /\ KwDf[1] # <<>>
    /\ KwNameCol \in DOMAIN KwDf[1][1]
    /\ KwAmountCol \in DOMAIN KwDf[1][1]

\* A text is normalized: no capital, no whitespace at either end, and its only
\* whitespace single spaces.
Normalized(t) ==
    /\ \A i \in DOMAIN t : t[i] \notin {"A", "B", "\t"}
    /\ t # <<>> => t[1] # " " /\ t[Len(t)] # " "
    /\ \A i \in 1..(Len(t) - 1) : ~(t[i] = " " /\ t[i + 1] = " ")

\* The rows whose normalized name has a keyword in it, whatever its case.
KwMatching ==
    {i \in DOMAIN KwDf[1] :
        \E j \in DOMAIN KwKeywords :
            Contains(LowerStr(KwKeywords[j]), Norm(KwDf[1][i][KwNameCol]))}

\* The amounts of a set of rows added up, one that is no number counted as 0.
RECURSIVE KwAmountsOver(_)
KwAmountsOver(S) ==
    IF S = {} THEN 0
    ELSE LET i == CHOOSE j \in S : TRUE
         IN  KwAmount(KwDf[1][i][KwAmountCol]) + KwAmountsOver(S \ {i})

\* C21: a call of _sum_by_keywords leaves its arguments as they were and
\* returns the sum of the amounts of exactly the rows whose normalized name
\* (trimmed, lowercased, whitespace runs collapsed) contains a keyword, case
\* ignored; each such row is counted once, an amount that is no number counts
\* as 0, and without a table, rows or one of the columns the result is 0.
C21_SumsRowsNamedByKeyword ==
    [][kw_out' # kw_out =>
        /\ kw_args' = kw_args
        /\ kw_out' = Some(IF KwHasRows THEN KwAmountsOver(KwMatching) ELSE 0)
        /\ KwHasRows =>
            \A i \in DOMAIN KwDf[1] : Normalized(Norm(KwDf[1][i][KwNameCol]))]_vars

\* Two rows, " Ab " with a number and "a <tab>B" with no number, and the
\* keywords "b" and "ab": the first row matches both and is counted once, the
\* second matches one and counts as 0.
C21_Witness ==
    /\ kw_out = Some(5)
    /\ KwHasRows
    /\ Len(KwDf[1]) = 2
    /\ KwDf[1][1][KwNameCol] = Text(<<" ", "A", "b", " ">>)
    /\ KwDf[1][1][KwAmountCol] = Num(5)
    /\ KwDf[1][2][KwNameCol] = Text(<<"a", " ", "\t", "B">>)
    /\ KwDf[1][2][KwAmountCol] = Text("n/a")
    /\ KwKeywords = << <<"b">>, <<"a", "b">> >>
    /\ KwMatching = {1, 2}

\* C22: a result of _estimate_debt_payoff that reports months has
\* 0 <= months <= max_months, zero-APR debts included, and paid_off is never
\* reported with more months than max_months.
C22_MonthsWithinCap ==
    (pc = "returned" /\ est.months # None) =>
        /\ 0 <= est.months[1]
        /\ est.months[1] <= max_months

\* The call is in the amortization loop, or has returned from it or after it.
LoopReached ==
    \/ pc = "loop"
    \/ /\ pc = "returned"
       /\ balance > 0 /\ payment > 0 /\ RatePositive
       /\ ~PaymentCoversNoPrincipal

\* C23: in the amortization loop, after every iteration,
\* months * payment = (original balance - current balance) + total_interest,
\* and total_interest >= 0; a paid_off result of the loop reports those months
\* and that interest, so the total paid is the original balance plus
\* total_interest plus the final overpayment, -final balance >= 0.
C23_PaymentsAccountedFor ==
    LoopReached =>
        /\ months * payment = (balance - b) + total_interest
        /\ total_interest >= 0
        /\ (pc = "returned" /\ est.status = "paid_off") =>
            /\ b <= 0
            /\ est.months = Some(months)
            /\ est.total_interest = Some(total_interest)
            /\ est.months[1] * payment = balance + est.total_interest[1] + (0 - b)

\* A payoff over several months that ends with an overpayment and has cost
\* interest.
C23_Witness ==
    /\ pc = "returned"
    /\ LoopReached
    /\ est.status = "paid_off"
    /\ months > 2
    /\ b < 0
    /\ total_interest > 0

\* C24: the return inside the amortization loop is never taken: whenever an
\* iteration is about to run, principal > 0, and no call returns
\* non_amortizing with the reason "Payment doesn't reduce principal.".
C24_DefensiveBranchUnreachable ==
    /\ (pc = "loop" /\ LoopCond(Locals, max_months)) =>
            Principal(Locals, payment, MonthlyRate(apr_pct)) > 0
    /\ pc = "returned" => est.reason # Some("Payment doesn't reduce principal.")

\* An iteration about to run, not the first, on a payment one unit above the
\* interest of the original balance.
C24_Witness ==
    /\ pc = "loop"
    /\ months > 0
    /\ LoopCond(Locals, max_months)
    /\ payment = InterestOnOriginalBalance + 1
    /\ Principal(Locals, payment, MonthlyRate(apr_pct)) > 1

-----------------------------------------------------------------------------
(* Claims about the page, checked under DashSpec *)

\* The figures the summary shows, and the figures of the session as it is
\* when the script has run to its end.
ShownFigures == Figures(rendered.read)
StoredFigures == Figures(CalcInputs(session_state, pf_debt_df))

\* C25: when the rerun that a table edit triggers has completed, net income,
\* outflow, leftover, emergency minimum, net worth and debt payments as the
\* summary shows them are those of the tables the session then holds.
C25_SummaryShowsStoredTables ==
    rendered.by = "edit" => ShownFigures = StoredFigures

\* The first paycheck has been set to 50 and the summary still shows a net
\* income of 0.
C25_Witness ==
    /\ rendered.by = "edit"
    /\ session_state["pf_income_df"][1]["Monthly Amount"] = Num(50)
    /\ StoredFigures.net_income = 50
    /\ ShownFigures.net_income = 0

-----------------------------------------------------------------------------
(* Claims about export and import, checked under ExportSpec *)

\* The script has just applied the downloaded snapshot.
AppliedDownloaded ==
    /\ rendered.by = "apply"
    /\ downloaded # None
    /\ dash_state["pf_last_import_sig"] = Some(Sig(downloaded[1]))

\* C26: when a snapshot exported from a session has been applied, the eight
\* tables, the five saved deductions and the paycheck-breakdown toggle hold
\* the values they had in the session at the export.
C26_ImportRestoresExportedInputs ==
    AppliedDownloaded =>
        CalcInputs(session_state, pf_debt_df) = downloaded[1].session[1]

\* A snapshot exported with the toggle on, an edited paycheck and saved taxes
\* has been applied to a session in which the toggle is off.
C26_Witness ==
    /\ AppliedDownloaded
    /\ downloaded[1].session[1]["pf_use_gross_breakdown"]
    /\ downloaded[1].session[1]["pf_manual_taxes"] = 60
    /\ downloaded[1].session[1]["pf_income_df"][1]["Monthly Amount"] = Num(50)
    /\ ~session_state["pf_use_gross_breakdown"]

-----------------------------------------------------------------------------
(* Claims about the import queue, checked under PendingSpec *)

\* The import queue of the session, and the snapshot it holds if that is a
\* dict.
PendingFlag == dash_state["pf_has_pending_import"]
PendingSnapshot == dash_state["pf_pending_snapshot"]
PendingIsDict == PendingSnapshot # None /\ IsDict(PendingSnapshot[1])

\* What the calculations read when snapshot has just been loaded.
LoadedInputs(snapshot) ==
    CalcInputs(LoadedSession(session_state, snapshot), LoadedDebt(snapshot))

\* The tables and saved deductions among the keys the calculations read.
TableAndDeductionKeys == CalcKeys \ {"pf_use_gross_breakdown"}

\* C27: a render that starts with pf_has_pending_import set applies the
\* pending snapshot before the calculations and the widgets read the session:
\* the calculations of that render read the loaded tables and deductions, or,
\* where the pending value is no dict, the tables and deductions as they
\* were; and when the script has run to its end the flag is not set, the
\* pending snapshot is absent and applying again would change nothing.
C27_PendingImportConsumedFirst ==
    [][ /\ PendingFlag' # Some(TRUE)
        /\ ApplyPendingSnapshotIfAny(Page)' = Page'
        /\ PendingFlag = Some(TRUE) =>
            /\ PendingSnapshot' = None
            /\ rendered'.by # "reset" =>
                /\ PendingFlag' = Some(FALSE)
                /\ \A k \in TableAndDeductionKeys :
                    rendered'.read[k] =
                        IF PendingIsDict
                        THEN LoadedInputs(PendingSnapshot[1][2])[k]
                        ELSE CalcInputs(session_state, pf_debt_df)[k] ]_vars

\* A render that started on a pending snapshot and an edit of the debt table
\* has run: the calculations read the loaded debt row, the editor stored its
\* edit on it, and the queue is empty.
C27_Witness ==
    /\ rendered.by = "edit"
    /\ PendingFlag = Some(FALSE)
    /\ PendingSnapshot = None
    /\ dash_state["pf_last_import_sig"] = Some(NoSig)
    /\ rendered.read["pf_debt_df"] = LoadedDebt(HandWrittenSnapshot)
    /\ session_state["pf_manual_taxes"] = 10
    /\ pf_debt_df[1]["Monthly Payment"] = Num(30)

-----------------------------------------------------------------------------
(* Claims about the page, checked under DashSpec: the import *)

\* The uploader holds a snapshot whose signature is pf_last_import_sig.
UploadedIsLastImport ==
    /\ uploaded # None
    /\ dash_state["pf_last_import_sig"] = Some(Sig(uploaded[1]))

\* The tables of the session.
Tables == [k \in DashboardTableKeys \cup {"pf_debt_df"} |->
            IF k = "pf_debt_df" THEN pf_debt_df ELSE session_state[k]]

\* C28: while the uploader holds a file whose signature is pf_last_import_sig,
\* no rerun queues or applies it: the flag is not set, and short of a reset
\* the signature and the uploader stay as they are and the tables change by
\* edits only.
C28_AppliedSnapshotNotQueuedAgain ==
    [][UploadedIsLastImport =>
        /\ rendered'.by # "apply"
        /\ dash_state'["pf_has_pending_import"] # Some(TRUE)
        /\ dash_state'["pf_pending_snapshot"] = None
        /\ rendered'.by # "reset" =>
            /\ dash_state'["pf_last_import_sig"] = dash_state["pf_last_import_sig"]
            /\ dash_state'["pf_uploader_nonce"] = dash_state["pf_uploader_nonce"]
        /\ rendered'.by \notin {"reset", "edit"} => Tables' = Tables]_vars

\* The snapshot applied last is in the uploader again, a rerun has gone by,
\* and the debt payment edited after the import is still in the table.
C28_Witness ==
    /\ UploadedIsLastImport
    /\ rendered.by = "other"
    /\ dash_state["pf_uploader_nonce"] = Some(1)
    /\ pf_debt_df # LoadedDebt(uploaded[1].content[2])
    /\ pf_debt_df[1]["Monthly Payment"] = Num(30)

-----------------------------------------------------------------------------
(* Claims about the page, checked under DashSpec: the saved deductions *)

\* The saved deductions the calculations use.
SavedDeductions == [k \in ManualKeys |-> session_state[k]]

\* C29: the five pf_manual_* values change only in a rerun started by "Save
\* breakdown", by "Apply snapshot now" or by "Reset now" (a draft input or
\* the toggle leaves them as they are), and when "Save breakdown" has run
\* each equals its pf_draft_* value.
C29_SavedDeductionsChangeBySaveImportReset ==
    [][ /\ SavedDeductions' # SavedDeductions =>
                rendered'.by \in {"save", "apply", "reset"}
        /\ rendered'.by = "save" =>
                \A k \in ManualKeys : session_state'[k] = dash_state'[DraftKey(k)][1] ]_vars

\* "Save breakdown" has saved drafts that an import had set and the taxes
\* input had then changed.
C29_Witness ==
    /\ rendered.by = "save"
    /\ session_state["pf_manual_taxes"] = 60
    /\ session_state["pf_manual_retirement"] = 4
    /\ session_state["pf_manual_match"] = 6

====
